---- MODULE Spec2Model ----
(***************************************************************************)
(* A model of the multi-tenant job scheduler (Scheduler, the WRR and DRR   *)
(* policies, ThreadPool).  The specifications share the definitions that   *)
(* model the code:                                                         *)
(*   Spec        submitter threads, worker threads and the thread calling  *)
(*               shutdown, interleaved at the granularity of the code's    *)
(*               critical sections and atomic operations;                  *)
(*   SpecArb     the Scheduler API driven by one thread (register, submit, *)
(*               select_next_job), with the dispatch sequence recorded;    *)
(*   SpecBacklog the DRR arbiter over two backlogged clients, with the     *)
(*               dispatched cost per client recorded;                      *)
(*   SpecRounds  the DRR arbiter over up to three backlogged clients and   *)
(*               any base_quantum, with the dispatch sequence recorded;    *)
(*   SpecApi     the Scheduler API driven by one thread with every         *)
(*               backpressure strategy and failing calls, with the latest  *)
(*               call and its outcome recorded;                            *)
(*   SpecUnlimited  submits to clients registered with max_queue_depth 0;  *)
(*   SpecMetrics the global metrics over clients with recorded executions; *)
(*   SpecLife    the life of a pool under fair scheduling of its threads:  *)
(*               construction, submits, shutdown (also repeated) and the   *)
(*               destructor;                                               *)
(*   SpecLocks   the mutexes each operation takes and releases, two        *)
(*               threads interleaved at every acquisition and release.     *)
(***************************************************************************)
EXTENDS Integers, Sequences, FiniteSets, TLC

VARIABLES
    client_order,      \* Scheduler::client_order_  (registration order)
    clients,           \* Scheduler::clients_       (id -> ClientState)
    policy_,           \* Scheduler::policy_        (the policy and its private state)
    next_job_id,       \* Scheduler::next_job_id_
    total_processed,   \* Scheduler::total_processed_
    pool,              \* ThreadPool: running_, draining_, and where shutdown() stands
    workers,           \* one record per worker thread: position in worker_loop, job held
    submitters,        \* one record per submitter thread: position in submit, job built
    terminated,        \* std::terminate was called (an exception left a worker thread)
    ledger,            \* history: what happened to each job id
    fifo,              \* history: per client, pushes so far and the push ordinal that last left the queue
    late_submit,       \* history: a submit call was in progress at, or began after, the call of shutdown
    dispatched,        \* history (SpecArb): the jobs select_next_job returned, in order
    first_dispatch,    \* history (SpecArb): roster and queue contents when the first job was returned
    last_select,       \* history (SpecArb): what the latest select_next_job call saw and did
    served,            \* history (SpecBacklog): total cost_hint dispatched, per client
    last_call,         \* history (SpecApi): the latest API call, its arguments and how it ended
    blocked_at_start,  \* history: 0, or next_job_id_ at the construction of the pool if a
                       \* submitter was then blocked or about to block on a full BLOCK queue
    threads            \* SpecLocks: per thread, the call it is in, the lock operations
                       \* left in it and the locks it holds, in the order it took them

vars == <<client_order, clients, policy_, next_job_id, total_processed, pool,
          workers, submitters, terminated, ledger, fifo, late_submit,
          dispatched, first_dispatch, last_select, served, last_call,
          blocked_at_start, threads>>

-----------------------------------------------------------------------------
(* Bounds of the model.                                                    *)

MaxClients == 2        \* client ids are 1..MaxClients
MaxWorkers == 2        \* worker_count is drawn from 1..MaxWorkers
NumSubmitters == 2     \* threads calling submit concurrently
MaxLoad == 3           \* registered clients plus worker threads in a run of Spec
MaxJobs == 2           \* submit calls in a run of Spec with MaxLoad clients and workers;
                       \* a run has one more for each client or worker fewer
MaxWeight == 1         \* registered weights in Spec are 1..MaxWeight
MaxDepth == 1          \* max_queue_depth in Spec is 0..MaxDepth
MaxCost == 1           \* cost_hint in Spec is 1..MaxCost
MaxQuantum == 1        \* base_quantum in Spec is 1..MaxQuantum
MaxDuration == 1       \* measured task durations are 1..MaxDuration microseconds
ArbMaxJobs == 4        \* submit calls in a run of SpecArb
ArbMaxWeight == 3      \* registered weights in SpecArb are 1..ArbMaxWeight
ArbMaxCost == 2        \* cost_hint in SpecArb and SpecBacklog is 1..ArbMaxCost
ArbMaxQuantum == 2     \* base_quantum in SpecArb and SpecBacklog is 1..ArbMaxQuantum
BacklogMaxServed == 20 \* SpecBacklog stops dispatching at this total cost
BacklogMaxQueue == 1   \* SpecBacklog keeps at most this many jobs queued per client
ApiMaxJobs == 3        \* submit calls on registered clients in a run of SpecApi
ApiMaxWeight == 2      \* weights passed to register_client in SpecApi are 0..ApiMaxWeight
ApiDepth == 2          \* max_queue_depth of the bounded queues of SpecApi
UnlimitedMaxJobs == 4  \* submit calls in a run of SpecUnlimited
MetricsMaxClients == 3 \* clients registered in SpecMetrics
MetricsMaxExecuted == 3 \* executed_count of a client in SpecMetrics is at most this
LockThreads == 2       \* threads making calls in SpecLocks
RoundsClients == 3     \* clients registered in SpecRounds
RoundsMaxWeight == 2   \* registered weights in SpecRounds are 1..RoundsMaxWeight
RoundsMaxQuantum == 2  \* base_quantum in SpecRounds is 0..RoundsMaxQuantum
RoundsMaxDispatched == 7 \* select_next_job calls in a run of SpecRounds

ClientIds == 1..MaxClients
WorkerIds == 1..MaxWorkers
SubmitterIds == 1..NumSubmitters
Strategies == {"REJECT", "BLOCK", "DROP_OLDEST", "DROP_NEWEST"}
\* The (max_queue_depth, overflow_strategy) pairs clients are registered with.
Backpressure ==
    {<<0, "REJECT">>} \cup {<<d, st>> : d \in 1..MaxDepth, st \in Strategies}
\* SpecArb and SpecBacklog register clients as register_client(id, weight)
\* does: max_depth = 0 (unlimited), strategy = REJECT.
DefaultDepth == 0
DefaultStrategy == "REJECT"
NoJob == [client_id |-> 0, job_id |-> 0, cost_hint |-> 0, seq |-> 0]

RECURSIVE SumOver(_, _)
SumOver(S, f) ==
    IF S = {} THEN 0
    ELSE LET x == CHOOSE y \in S : TRUE IN f[x] + SumOver(S \ {x}, f)

Min(a, b) == IF a <= b THEN a ELSE b

-----------------------------------------------------------------------------
(* ClientState and Job.                                                    *)

\* ClientState(id, w, max_depth, strategy): empty queue, counters at 0.
NewClientState(w, depth, strategy) ==
    [weight |-> w, max_queue_depth |-> depth, overflow_strategy |-> strategy,
     queue |-> <<>>, submitted_count |-> 0, executed_count |-> 0,
     total_execution_time_us |-> 0, overflow_count |-> 0]

\* Job(client_id, task) with job_id and cost_hint as submit sets them.  seq is
\* history: the ordinal of the push onto the client's queue (0 until pushed).
NewJob(cid, jid, cost) ==
    [client_id |-> cid, job_id |-> jid, cost_hint |-> cost, seq |-> 0]

-----------------------------------------------------------------------------
(* Policies.  One iteration of a policy's scan loop is one operator: it    *)
(* runs under the lock of the client the cursor is at.                     *)

NewPolicy(kind, q) ==
    [kind |-> kind, base_quantum |-> q, rr_index |-> 0, rr_remaining |-> 0,
     drr_index |-> 0, deficit |-> <<>>]

\* An on_client_registered that gives the new client no entry in deficit_.
OnClientRegisteredNoEntry(pol, id) == pol

\* on_client_registered: DRR sets deficit_[id] = 0; WRR keeps no per-client state.
OnClientRegistered(pol, id) ==
    IF pol.kind = "DRR"
    THEN [pol EXCEPT !.deficit = [c \in DOMAIN pol.deficit \cup {id} |->
                                     IF c = id THEN 0 ELSE pol.deficit[c]]]
    ELSE pol

\* The client the policy's cursor is at.
Cursor(pol) == IF pol.kind = "DRR" THEN pol.drr_index ELSE pol.rr_index
Current(pol, order) == order[Cursor(pol) + 1]

\* A DRR iteration that leaves the deficit of a client found empty as it is.
DrrIterKeepsCredit(pol, cl, order) ==
    LET n == Len(order)
        current == order[pol.drr_index + 1]
        c == cl[current]
    IN IF c.queue = <<>>
       THEN [pol |-> [pol EXCEPT !.drr_index = (pol.drr_index + 1) % n],
             clients |-> cl, job |-> NoJob]
       ELSE LET refilled == IF pol.deficit[current] <= 0
                            THEN pol.deficit[current] + c.weight * pol.base_quantum
                            ELSE pol.deficit[current]
                job == Head(c.queue)
                left == refilled - job.cost_hint
            IN [pol |-> [pol EXCEPT !.deficit[current] = left,
                                    !.drr_index = IF left <= 0
                                                  THEN (pol.drr_index + 1) % n
                                                  ELSE pol.drr_index],
                clients |-> [cl EXCEPT ![current].queue = Tail(c.queue)],
                job |-> job]

\* A DRR iteration that advances only when the deficit went below zero.
DrrIterStaysOnZero(pol, cl, order) ==
    LET n == Len(order)
        current == order[pol.drr_index + 1]
        c == cl[current]
    IN IF c.queue = <<>>
       THEN [pol |-> [pol EXCEPT !.deficit[current] = 0,
                                 !.drr_index = (pol.drr_index + 1) % n],
             clients |-> cl, job |-> NoJob]
       ELSE LET refilled == IF pol.deficit[current] <= 0
                            THEN pol.deficit[current] + c.weight * pol.base_quantum
                            ELSE pol.deficit[current]
                job == Head(c.queue)
                left == refilled - job.cost_hint
            IN [pol |-> [pol EXCEPT !.deficit[current] = left,
                                    !.drr_index = IF left < 0
                                                  THEN (pol.drr_index + 1) % n
                                                  ELSE pol.drr_index],
                clients |-> [cl EXCEPT ![current].queue = Tail(c.queue)],
                job |-> job]

\* A DRR iteration that refills the deficit at every dispatch, spent or not.
DrrIterRefillsAlways(pol, cl, order) ==
    LET n == Len(order)
        current == order[pol.drr_index + 1]
        c == cl[current]
    IN IF c.queue = <<>>
       THEN [pol |-> [pol EXCEPT !.deficit[current] = 0,
                                 !.drr_index = (pol.drr_index + 1) % n],
             clients |-> cl, job |-> NoJob]
       ELSE LET refilled == pol.deficit[current] + c.weight * pol.base_quantum
                job == Head(c.queue)
                left == refilled - job.cost_hint
            IN [pol |-> [pol EXCEPT !.deficit[current] = left,
                                    !.drr_index = IF left <= 0
                                                  THEN (pol.drr_index + 1) % n
                                                  ELSE pol.drr_index],
                clients |-> [cl EXCEPT ![current].queue = Tail(c.queue)],
                job |-> job]

\* DeficitRoundRobinPolicy::select_next_job, body of the for loop.
DrrIter(pol, cl, order) ==
    LET n == Len(order)
        current == order[pol.drr_index + 1]
        c == cl[current]
    IN IF c.queue = <<>>
       THEN [pol |-> [pol EXCEPT !.deficit[current] = 0,
                                 !.drr_index = (pol.drr_index + 1) % n],
             clients |-> cl, job |-> NoJob]
       ELSE LET refilled == IF pol.deficit[current] <= 0
                            THEN pol.deficit[current] + c.weight * pol.base_quantum
                            ELSE pol.deficit[current]
                job == Head(c.queue)
                left == refilled - job.cost_hint
            IN [pol |-> [pol EXCEPT !.deficit[current] = left,
                                    !.drr_index = IF left <= 0
                                                  THEN (pol.drr_index + 1) % n
                                                  ELSE pol.drr_index],
                clients |-> [cl EXCEPT ![current].queue = Tail(c.queue)],
                job |-> job]

\* WeightedRoundRobinPolicy::select_next_job, one client of the scan
\* (spec section 4.3.1, steps 2 to 4).
WrrIter(pol, cl, order) ==
    LET n == Len(order)
        current == order[pol.rr_index + 1]
        c == cl[current]
        remaining == IF pol.rr_remaining = 0 THEN c.weight ELSE pol.rr_remaining
    IN IF c.queue # <<>>
       THEN [pol |-> [pol EXCEPT !.rr_remaining = remaining - 1,
                                 !.rr_index = IF remaining - 1 = 0
                                              THEN (pol.rr_index + 1) % n
                                              ELSE pol.rr_index],
             clients |-> [cl EXCEPT ![current].queue = Tail(c.queue)],
             job |-> Head(c.queue)]
       ELSE [pol |-> [pol EXCEPT !.rr_remaining = 0,
                                 !.rr_index = (pol.rr_index + 1) % n],
             clients |-> cl, job |-> NoJob]

\* A policy that returns the job at the front of the queue and leaves it there.
PolicyIterLeavesJob(pol, cl, order) ==
    LET r == IF pol.kind = "DRR" THEN DrrIter(pol, cl, order)
             ELSE WrrIter(pol, cl, order)
    IN [r EXCEPT !.clients = cl]

\* The virtual call policy_->select_next_job, one iteration.
PolicyIter(pol, cl, order) ==
    IF pol.kind = "DRR" THEN DrrIter(pol, cl, order) ELSE WrrIter(pol, cl, order)

\* A scan that inspects one client more than there are.
ScanLimitLong(order) == Len(order) + 1

\* The number of clients a scan may inspect: for (scanned = 0; scanned < n; ...).
ScanLimitShort(order) == Len(order) - 1
ScanLimit(order) == Len(order)

\* A whole scan with no other thread running: iterations until a job is
\* returned or ScanLimit clients were inspected.  inspected counts the
\* iterations, empties lists the clients found empty.
RECURSIVE PolicyScan(_, _, _, _, _)
PolicyScan(pol, cl, order, scanned, empties) ==
    IF scanned >= ScanLimit(order)
    THEN [pol |-> pol, clients |-> cl, job |-> NoJob, inspected |-> scanned,
          empties |-> empties]
    ELSE LET cur == Current(pol, order)
             r == PolicyIter(pol, cl, order)
         IN IF r.job # NoJob
            THEN [pol |-> r.pol, clients |-> r.clients, job |-> r.job,
                  inspected |-> scanned + 1, empties |-> empties]
            ELSE PolicyScan(r.pol, r.clients, order, scanned + 1,
                            empties \cup {cur})

\* Scheduler::select_next_job called with no other thread running.
SelectNextJob(pol, cl, order) ==
    IF order = <<>>
    THEN [pol |-> pol, clients |-> cl, job |-> NoJob, inspected |-> 0,
          empties |-> {}]
    ELSE PolicyScan(pol, cl, order, 0, {})

-----------------------------------------------------------------------------
(* Scheduler::register_client and Scheduler::submit.                       *)

\* A registration that puts the new client at the head of the scan order.
OrderAfterRegisterFront(order, id) == <<id>> \o order

\* client_order_.push_back(client_id)
OrderAfterRegister(order, id) == Append(order, id)

\* A submit that pushes the incoming job at the front of the queue.
SubmitLockedPushFront(c, job, ord) ==
    LET full == Len(c.queue) >= c.max_queue_depth
        limited == c.max_queue_depth > 0
        stamped == [job EXCEPT !.seq = ord]
    IN IF limited /\ c.overflow_strategy = "REJECT" /\ full
       THEN [outcome |-> "rejected", evicted |-> NoJob,
             client |-> [c EXCEPT !.overflow_count = @ + 1]]
       ELSE IF limited /\ c.overflow_strategy = "BLOCK"
               /\ ~(Len(c.queue) < c.max_queue_depth)
       THEN [outcome |-> "wait", evicted |-> NoJob, client |-> c]
       ELSE IF limited /\ c.overflow_strategy = "DROP_OLDEST" /\ full
       THEN [outcome |-> "pushed", evicted |-> Head(c.queue),
             client |-> [c EXCEPT !.queue = <<stamped>> \o Tail(@),
                                  !.overflow_count = @ + 1]]
       ELSE IF limited /\ c.overflow_strategy = "DROP_NEWEST" /\ full
       THEN [outcome |-> "dropped", evicted |-> NoJob,
             client |-> [c EXCEPT !.overflow_count = @ + 1]]
       ELSE [outcome |-> "pushed", evicted |-> NoJob,
             client |-> [c EXCEPT !.queue = <<stamped>> \o @]]

\* A submit whose REJECT branch throws without counting the overflow.
SubmitLockedRejectUncounted(c, job, ord) ==
    LET full == Len(c.queue) >= c.max_queue_depth
        limited == c.max_queue_depth > 0
        stamped == [job EXCEPT !.seq = ord]
    IN IF limited /\ c.overflow_strategy = "REJECT" /\ full
       THEN [outcome |-> "rejected", evicted |-> NoJob, client |-> c]
       ELSE IF limited /\ c.overflow_strategy = "BLOCK"
               /\ ~(Len(c.queue) < c.max_queue_depth)
       THEN [outcome |-> "wait", evicted |-> NoJob, client |-> c]
       ELSE IF limited /\ c.overflow_strategy = "DROP_OLDEST" /\ full
       THEN [outcome |-> "pushed", evicted |-> Head(c.queue),
             client |-> [c EXCEPT !.queue = Append(Tail(@), stamped),
                                  !.overflow_count = @ + 1]]
       ELSE IF limited /\ c.overflow_strategy = "DROP_NEWEST" /\ full
       THEN [outcome |-> "dropped", evicted |-> NoJob,
             client |-> [c EXCEPT !.overflow_count = @ + 1]]
       ELSE [outcome |-> "pushed", evicted |-> NoJob,
             client |-> [c EXCEPT !.queue = Append(@, stamped)]]

\* A submit whose DROP_OLDEST branch pops the back of the queue.
SubmitLockedDropsBack(c, job, ord) ==
    LET full == Len(c.queue) >= c.max_queue_depth
        limited == c.max_queue_depth > 0
        stamped == [job EXCEPT !.seq = ord]
    IN IF limited /\ c.overflow_strategy = "REJECT" /\ full
       THEN [outcome |-> "rejected", evicted |-> NoJob,
             client |-> [c EXCEPT !.overflow_count = @ + 1]]
       ELSE IF limited /\ c.overflow_strategy = "BLOCK"
               /\ ~(Len(c.queue) < c.max_queue_depth)
       THEN [outcome |-> "wait", evicted |-> NoJob, client |-> c]
       ELSE IF limited /\ c.overflow_strategy = "DROP_OLDEST" /\ full
       THEN [outcome |-> "pushed", evicted |-> c.queue[Len(c.queue)],
             client |-> [c EXCEPT !.queue = Append(SubSeq(@, 1, Len(@) - 1), stamped),
                                  !.overflow_count = @ + 1]]
       ELSE IF limited /\ c.overflow_strategy = "DROP_NEWEST" /\ full
       THEN [outcome |-> "dropped", evicted |-> NoJob,
             client |-> [c EXCEPT !.overflow_count = @ + 1]]
       ELSE [outcome |-> "pushed", evicted |-> NoJob,
             client |-> [c EXCEPT !.queue = Append(@, stamped)]]

\* A submit whose DROP_NEWEST branch tests size > max_queue_depth.
SubmitLockedDropNewestLate(c, job, ord) ==
    LET full == Len(c.queue) >= c.max_queue_depth
        limited == c.max_queue_depth > 0
        stamped == [job EXCEPT !.seq = ord]
    IN IF limited /\ c.overflow_strategy = "REJECT" /\ full
       THEN [outcome |-> "rejected", evicted |-> NoJob,
             client |-> [c EXCEPT !.overflow_count = @ + 1]]
       ELSE IF limited /\ c.overflow_strategy = "BLOCK"
               /\ ~(Len(c.queue) < c.max_queue_depth)
       THEN [outcome |-> "wait", evicted |-> NoJob, client |-> c]
       ELSE IF limited /\ c.overflow_strategy = "DROP_OLDEST" /\ full
       THEN [outcome |-> "pushed", evicted |-> Head(c.queue),
             client |-> [c EXCEPT !.queue = Append(Tail(@), stamped),
                                  !.overflow_count = @ + 1]]
       ELSE IF limited /\ c.overflow_strategy = "DROP_NEWEST"
               /\ Len(c.queue) > c.max_queue_depth
       THEN [outcome |-> "dropped", evicted |-> NoJob,
             client |-> [c EXCEPT !.overflow_count = @ + 1]]
       ELSE [outcome |-> "pushed", evicted |-> NoJob,
             client |-> [c EXCEPT !.queue = Append(@, stamped)]]

\* A submit whose BLOCK branch waits for size <= max_queue_depth.
SubmitLockedBlockOverfills(c, job, ord) ==
    LET full == Len(c.queue) >= c.max_queue_depth
        limited == c.max_queue_depth > 0
        stamped == [job EXCEPT !.seq = ord]
    IN IF limited /\ c.overflow_strategy = "REJECT" /\ full
       THEN [outcome |-> "rejected", evicted |-> NoJob,
             client |-> [c EXCEPT !.overflow_count = @ + 1]]
       ELSE IF limited /\ c.overflow_strategy = "BLOCK"
               /\ ~(Len(c.queue) <= c.max_queue_depth)
       THEN [outcome |-> "wait", evicted |-> NoJob, client |-> c]
       ELSE IF limited /\ c.overflow_strategy = "DROP_OLDEST" /\ full
       THEN [outcome |-> "pushed", evicted |-> Head(c.queue),
             client |-> [c EXCEPT !.queue = Append(Tail(@), stamped),
                                  !.overflow_count = @ + 1]]
       ELSE IF limited /\ c.overflow_strategy = "DROP_NEWEST" /\ full
       THEN [outcome |-> "dropped", evicted |-> NoJob,
             client |-> [c EXCEPT !.overflow_count = @ + 1]]
       ELSE [outcome |-> "pushed", evicted |-> NoJob,
             client |-> [c EXCEPT !.queue = Append(@, stamped)]]

\* A submit whose DROP_OLDEST branch counts the overflow and evicts nothing.
SubmitLockedDropOldestKeeps(c, job, ord) ==
    LET full == Len(c.queue) >= c.max_queue_depth
        limited == c.max_queue_depth > 0
        stamped == [job EXCEPT !.seq = ord]
    IN IF limited /\ c.overflow_strategy = "REJECT" /\ full
       THEN [outcome |-> "rejected", evicted |-> NoJob,
             client |-> [c EXCEPT !.overflow_count = @ + 1]]
       ELSE IF limited /\ c.overflow_strategy = "BLOCK"
               /\ ~(Len(c.queue) < c.max_queue_depth)
       THEN [outcome |-> "wait", evicted |-> NoJob, client |-> c]
       ELSE IF limited /\ c.overflow_strategy = "DROP_OLDEST" /\ full
       THEN [outcome |-> "pushed", evicted |-> NoJob,
             client |-> [c EXCEPT !.queue = Append(@, stamped),
                                  !.overflow_count = @ + 1]]
       ELSE IF limited /\ c.overflow_strategy = "DROP_NEWEST" /\ full
       THEN [outcome |-> "dropped", evicted |-> NoJob,
             client |-> [c EXCEPT !.overflow_count = @ + 1]]
       ELSE [outcome |-> "pushed", evicted |-> NoJob,
             client |-> [c EXCEPT !.queue = Append(@, stamped)]]

\* A submit that applies the overflow strategy to a depth of 0 as to any
\* other depth.
SubmitLockedZeroIsBound(c, job, ord) ==
    LET full == Len(c.queue) >= c.max_queue_depth
    IN CASE c.overflow_strategy = "REJECT" /\ full ->
               [outcome |-> "rejected", evicted |-> NoJob,
                client |-> [c EXCEPT !.overflow_count = @ + 1]]
         [] c.overflow_strategy = "BLOCK" /\ full ->
               [outcome |-> "wait", evicted |-> NoJob, client |-> c]
         [] c.overflow_strategy = "DROP_NEWEST" /\ full ->
               [outcome |-> "dropped", evicted |-> NoJob,
                client |-> [c EXCEPT !.overflow_count = @ + 1]]
         [] OTHER ->
               [outcome |-> "pushed", evicted |-> NoJob,
                client |-> [c EXCEPT !.queue = Append(@, [job EXCEPT !.seq = ord])]]

\* The part of submit under the client's mutex: the overflow switch and the
\* push.  outcome is "pushed", "rejected" (QueueFullException), "dropped"
\* (DROP_NEWEST: the incoming job is discarded) or "wait" (BLOCK: the
\* predicate of submit_cv_.wait is false).  evicted is the job DROP_OLDEST
\* popped, or NoJob.  ord is the push ordinal the job gets (history).
SubmitLocked(c, job, ord) ==
    LET full == Len(c.queue) >= c.max_queue_depth
        limited == c.max_queue_depth > 0
        stamped == [job EXCEPT !.seq = ord]
    IN IF limited /\ c.overflow_strategy = "REJECT" /\ full
       THEN [outcome |-> "rejected", evicted |-> NoJob,
             client |-> [c EXCEPT !.overflow_count = @ + 1]]
       ELSE IF limited /\ c.overflow_strategy = "BLOCK"
               /\ ~(Len(c.queue) < c.max_queue_depth)
       THEN [outcome |-> "wait", evicted |-> NoJob, client |-> c]
       ELSE IF limited /\ c.overflow_strategy = "DROP_OLDEST" /\ full
       THEN [outcome |-> "pushed", evicted |-> Head(c.queue),
             client |-> [c EXCEPT !.queue = Append(Tail(@), stamped),
                                  !.overflow_count = @ + 1]]
       ELSE IF limited /\ c.overflow_strategy = "DROP_NEWEST" /\ full
       THEN [outcome |-> "dropped", evicted |-> NoJob,
             client |-> [c EXCEPT !.overflow_count = @ + 1]]
       ELSE [outcome |-> "pushed", evicted |-> NoJob,
             client |-> [c EXCEPT !.queue = Append(@, stamped)]]

\* client->submitted_count.fetch_add(1), after the client's mutex is released.
SubmitCount(c) == [c EXCEPT !.submitted_count = @ + 1]

-----------------------------------------------------------------------------
(* Shared pieces of the actions.                                           *)

\* Scheduler::has_pending_jobs
HasPendingJobs(cl) == \E c \in DOMAIN cl : cl[c].queue # <<>>

\* The registry after register_client(id, w, depth, strategy) succeeded.
Registered(id, w, depth, strategy) ==
    /\ clients' = [c \in DOMAIN clients \cup {id} |->
                      IF c = id THEN NewClientState(w, depth, strategy)
                      ELSE clients[c]]
    /\ client_order' = OrderAfterRegister(client_order, id)
    /\ policy_' = OnClientRegistered(policy_, id)
    /\ fifo' = [c \in DOMAIN fifo \cup {id} |->
                   IF c = id THEN [pushed |-> 0, last_out |-> 0] ELSE fifo[c]]

\* History kept when a job leaves the front of client cid's queue.
FifoOut(ff, cid, job) == [ff EXCEPT ![cid].last_out = job.seq]
FifoPush(ff, cid) == [ff EXCEPT ![cid].pushed = @ + 1]

\* submit_cv_.notify_one(): the submitter records after one thread waiting on
\* client cid's condition variable, the one named s, was woken (it goes back
\* to take the mutex and test the predicate; "woken" tells it from a
\* submitter that arrives at the mutex for the first time).
WakeOne(sub, s) == [sub EXCEPT ![s].pc = "woken"]
Waiting(sub, cid) ==
    {s \in DOMAIN sub : sub[s].pc = "waiting" /\ sub[s].job.client_id = cid}

\* cv_.notify_all(): every worker blocked in cv_.wait tests the predicate again.
NotifyAll(ws) ==
    [w \in DOMAIN ws |-> IF ws[w].pc = "blocked"
                         THEN [ws[w] EXCEPT !.pc = "wait"] ELSE ws[w]]

StopRequested(w) == w <= pool.stopped_upto

\* A thread holds registry_mutex_ shared over several steps: a worker inside
\* select_next_job, and a worker inside record_execution.
RegistryShared ==
    \E w \in WorkerIds : workers[w].pc \in {"scan", "record_total"}

\* A select_next_job that calls the policy without taking rr_mutex_.
RrMutexNotTaken == FALSE

\* rr_mutex_ is held by the worker inside the policy's select_next_job.
RrMutexHeld == \E w \in WorkerIds : workers[w].pc = "scan"

IdleWorker == [pc |-> "none", job |-> NoJob, scanned |-> 0]
IdleSubmitter == [pc |-> "idle", job |-> NoJob]
\* ClientMetrics with every field zero (what a call that returns no metrics
\* leaves in the record of the call).
NoMetrics == [submitted |-> 0, executed |-> 0, total_us |-> 0, queue_depth |-> 0,
              weight |-> 0, overflow_count |-> 0]
\* No API call was recorded yet.
NoCall == [op |-> "none", id |-> 0, arg |-> 0, result |-> "ok", value |-> NoMetrics]

-----------------------------------------------------------------------------
(* Spec: the threads.                                                      *)

Init ==
    /\ client_order = <<>>
    /\ clients = <<>>
    /\ \E kind \in {"WRR", "DRR"}, q \in 1..MaxQuantum :
          /\ kind = "WRR" => q = 1
          /\ policy_ = NewPolicy(kind, q)
    /\ next_job_id = 1
    /\ total_processed = 0
    /\ pool = [phase |-> "unbuilt", running_ |-> TRUE, draining_ |-> FALSE,
               worker_count |-> 0, stopped_upto |-> 0]
    /\ workers = [w \in WorkerIds |-> IdleWorker]
    /\ submitters = [s \in SubmitterIds |-> IdleSubmitter]
    /\ terminated = FALSE
    /\ ledger = <<>>
    /\ fifo = <<>>
    /\ late_submit = FALSE
    /\ dispatched = <<>>
    /\ first_dispatch = [order |-> <<>>, queues |-> <<>>]
    /\ last_select = [called |-> FALSE, had_work |-> FALSE, returned |-> FALSE,
                      inspected |-> 0, n |-> 0, empties |-> {}, reset |-> {}]
    /\ served = <<>>
    /\ last_call = NoCall
    /\ blocked_at_start = 0
    /\ threads = <<>>

arbvars == <<dispatched, first_dispatch, last_select, served, last_call,
            blocked_at_start, threads>>

\* Scheduler::register_client, successful call (weight >= 1, id not registered).
\* It needs registry_mutex_ exclusively.
RegisterClient(id, w, depth, strategy) ==
    /\ ~terminated
    /\ id \notin DOMAIN clients
    /\ id = Len(client_order) + 1
    /\ Len(client_order) + 1 + pool.worker_count <= MaxLoad
    /\ Len(client_order) + 1 + pool.worker_count + next_job_id - 1
          <= MaxLoad + MaxJobs
    /\ ~RegistryShared
    /\ Registered(id, w, depth, strategy)
    /\ UNCHANGED <<next_job_id, total_processed, pool, workers, submitters,
                   terminated, ledger, late_submit, arbvars>>

\* Scheduler::submit up to the client's mutex: the lookup under the shared
\* registry lock, the Job, next_job_id_.fetch_add(1).
SubmitBegin(s, cid, cost) ==
    /\ ~terminated
    /\ submitters[s].pc = "idle"
    /\ \A t \in SubmitterIds : t < s => submitters[t].pc # "idle"
    /\ next_job_id + Len(client_order) + pool.worker_count <= MaxLoad + MaxJobs
    /\ cid \in DOMAIN clients
    /\ submitters' = [submitters EXCEPT ![s] =
                         [pc |-> "enter", job |-> NewJob(cid, next_job_id, cost)]]
    /\ next_job_id' = next_job_id + 1
    /\ ledger' = Append(ledger, [client_id |-> cid, enqueued |-> FALSE,
                                 evicted |-> FALSE, invoked |-> 0])
    /\ late_submit' = (late_submit \/ pool.phase \notin {"unbuilt", "live"})
    /\ UNCHANGED <<client_order, clients, policy_, total_processed, pool,
                   workers, terminated, fifo, arbvars>>

\* Scheduler::submit under the client's mutex (also after a wake-up from
\* submit_cv_.wait).
SubmitEnter(s) ==
    /\ ~terminated
    /\ submitters[s].pc \in {"enter", "woken"}
    /\ LET job == submitters[s].job
           cid == job.client_id
           r == SubmitLocked(clients[cid], job, fifo[cid].pushed + 1)
       IN /\ clients' = [clients EXCEPT ![cid] = r.client]
          /\ submitters' = [submitters EXCEPT ![s] =
                CASE r.outcome = "pushed" -> [pc |-> "count", job |-> job]
                  [] r.outcome = "wait" -> [pc |-> "waiting", job |-> job]
                  [] OTHER -> IdleSubmitter]
          /\ ledger' = [j \in DOMAIN ledger |->
                IF j = job.job_id /\ r.outcome = "pushed"
                THEN [ledger[j] EXCEPT !.enqueued = TRUE]
                ELSE IF j = r.evicted.job_id
                THEN [ledger[j] EXCEPT !.evicted = TRUE]
                ELSE ledger[j]]
          /\ fifo' = LET pushed == IF r.outcome = "pushed"
                                   THEN FifoPush(fifo, cid) ELSE fifo
                     IN IF r.evicted # NoJob THEN FifoOut(pushed, cid, r.evicted)
                        ELSE pushed
    /\ UNCHANGED <<client_order, policy_, next_job_id, total_processed, pool,
                   workers, terminated, late_submit, arbvars>>

\* Scheduler::submit, last statement.
SubmitCounted(s) ==
    /\ ~terminated
    /\ submitters[s].pc = "count"
    /\ clients' = [clients EXCEPT ![submitters[s].job.client_id] = SubmitCount(@)]
    /\ submitters' = [submitters EXCEPT ![s] = IdleSubmitter]
    /\ UNCHANGED <<client_order, policy_, next_job_id, total_processed, pool,
                   workers, terminated, ledger, fifo, late_submit, arbvars>>

\* ThreadPool::ThreadPool(scheduler, k): k worker threads start worker_loop.
PoolConstruct(k) ==
    /\ ~terminated
    /\ pool.phase = "unbuilt"
    /\ Len(client_order) + k <= MaxLoad
    /\ Len(client_order) + k + next_job_id - 1 <= MaxLoad + MaxJobs
    /\ pool' = [pool EXCEPT !.phase = "live", !.worker_count = k]
    /\ workers' = [w \in WorkerIds |->
                      IF w <= k THEN [IdleWorker EXCEPT !.pc = "top"]
                      ELSE IdleWorker]
    /\ blocked_at_start' =
          IF \E s \in SubmitterIds :
             /\ submitters[s].pc \in {"enter", "waiting"}
             /\ LET c == clients[submitters[s].job.client_id]
                IN /\ c.overflow_strategy = "BLOCK"
                   /\ c.max_queue_depth > 0
                   /\ Len(c.queue) = c.max_queue_depth
             /\ \A t \in SubmitterIds \ {s} : submitters[t].pc = "idle"
          THEN next_job_id ELSE 0
    /\ UNCHANGED <<client_order, clients, policy_, next_job_id, total_processed,
                   submitters, terminated, ledger, fifo, late_submit, dispatched,
                   first_dispatch, last_select, served, last_call, threads>>

\* worker_loop: while (!stop_token.stop_requested())
WorkerLoopHead(w) ==
    /\ ~terminated
    /\ workers[w].pc = "top"
    /\ workers' = [workers EXCEPT ![w].pc =
                      IF StopRequested(w) THEN "exited" ELSE "select"]
    /\ UNCHANGED <<client_order, clients, policy_, next_job_id, total_processed,
                   pool, submitters, terminated, ledger, fifo, late_submit,
                   arbvars>>

\* A select_next_job that calls the policy without testing client_order_.empty().
WorkerSelectNoEmptyTest(w) ==
    /\ ~terminated
    /\ workers[w].pc = "select"
    /\ ~RrMutexHeld
    /\ workers' = [workers EXCEPT ![w].pc = "scan", ![w].scanned = 0]
    /\ UNCHANGED <<client_order, clients, policy_, next_job_id, total_processed,
                   pool, submitters, terminated, ledger, fifo, late_submit,
                   arbvars>>

\* Scheduler::select_next_job up to the policy call: the shared registry lock,
\* the empty test, rr_mutex_.
WorkerSelect(w) ==
    /\ ~terminated
    /\ workers[w].pc = "select"
    /\ IF client_order = <<>>
       THEN workers' = [workers EXCEPT ![w].pc = "nojob"]
       ELSE /\ ~RrMutexHeld
            /\ workers' = [workers EXCEPT ![w].pc = "scan", ![w].scanned = 0]
    /\ UNCHANGED <<client_order, clients, policy_, next_job_id, total_processed,
                   pool, submitters, terminated, ledger, fifo, late_submit,
                   arbvars>>

\* One iteration of the policy's scan, under the mutex of the client the
\* cursor is at.  A job returned leaves select_next_job (both locks released);
\* so does the scan's end.
WorkerScan(w) ==
    /\ ~terminated
    /\ workers[w].pc = "scan"
    /\ LET cid == Current(policy_, client_order)
           r == PolicyIter(policy_, clients, client_order)
       IN /\ policy_' = r.pol
          /\ clients' = r.clients
          /\ IF r.job # NoJob
             THEN /\ workers' = [workers EXCEPT ![w].pc = "exec", ![w].job = r.job,
                                                ![w].scanned = 0]
                  /\ fifo' = FifoOut(fifo, cid, r.job)
                  /\ IF Waiting(submitters, cid) = {}
                     THEN UNCHANGED submitters
                     ELSE \E s \in Waiting(submitters, cid) :
                             submitters' = WakeOne(submitters, s)
             ELSE /\ workers' = [workers EXCEPT
                        ![w].pc = IF workers[w].scanned + 1 >= ScanLimit(client_order)
                                  THEN "nojob" ELSE "scan",
                        ![w].scanned = IF workers[w].scanned + 1 >= ScanLimit(client_order)
                                       THEN 0 ELSE workers[w].scanned + 1]
                  /\ UNCHANGED <<fifo, submitters>>
    /\ UNCHANGED <<client_order, next_job_id, total_processed, pool, terminated,
                   ledger, late_submit, arbvars>>

\* A worker that leaves as soon as the pool is draining, pending jobs or not.
WorkerNoJobExitsOnDrain(w) ==
    /\ ~terminated
    /\ workers[w].pc = "nojob"
    /\ workers' = [workers EXCEPT ![w].pc =
                      IF pool.draining_ THEN "exited" ELSE "wait"]
    /\ UNCHANGED <<client_order, clients, policy_, next_job_id, total_processed,
                   pool, submitters, terminated, ledger, fifo, late_submit,
                   arbvars>>

\* worker_loop, no job: leave when draining and nothing is pending, else go
\* and wait on cv_.
WorkerNoJob(w) ==
    /\ ~terminated
    /\ workers[w].pc = "nojob"
    /\ workers' = [workers EXCEPT ![w].pc =
                      IF pool.draining_ /\ ~HasPendingJobs(clients)
                      THEN "exited" ELSE "wait"]
    /\ UNCHANGED <<client_order, clients, policy_, next_job_id, total_processed,
                   pool, submitters, terminated, ledger, fifo, late_submit,
                   arbvars>>

\* cv_.wait(lock, stop_token, pred): the test of the stop token and of the
\* predicate, under cv_mutex_.
WorkerWait(w) ==
    /\ ~terminated
    /\ workers[w].pc = "wait"
    /\ workers' = [workers EXCEPT ![w].pc =
                      IF StopRequested(w) \/ pool.draining_ \/ ~pool.running_
                      THEN "top" ELSE "preblock"]
    /\ UNCHANGED <<client_order, clients, policy_, next_job_id, total_processed,
                   pool, submitters, terminated, ledger, fifo, late_submit,
                   arbvars>>

\* cv_.wait: the thread blocks.  A notification sent between the predicate's
\* test and this step is not received; a stop request is.
WorkerBlock(w) ==
    /\ ~terminated
    /\ workers[w].pc = "preblock"
    /\ workers' = [workers EXCEPT ![w].pc =
                      IF StopRequested(w) THEN "top" ELSE "blocked"]
    /\ UNCHANGED <<client_order, clients, policy_, next_job_id, total_processed,
                   pool, submitters, terminated, ledger, fifo, late_submit,
                   arbvars>>

\* worker_loop: job->task() was invoked and returns.
WorkerRunTask(w) ==
    /\ ~terminated
    /\ workers[w].pc = "exec"
    /\ workers' = [workers EXCEPT ![w].pc = "record"]
    /\ ledger' = [ledger EXCEPT ![workers[w].job.job_id].invoked = @ + 1]
    /\ UNCHANGED <<client_order, clients, policy_, next_job_id, total_processed,
                   pool, submitters, terminated, fifo, late_submit, arbvars>>

\* worker_loop: job->task() throws; nothing catches it in the thread.
WorkerTaskThrows(w) ==
    /\ ~terminated
    /\ workers[w].pc = "exec"
    /\ terminated' = TRUE
    /\ ledger' = [ledger EXCEPT ![workers[w].job.job_id].invoked = @ + 1]
    /\ UNCHANGED <<client_order, clients, policy_, next_job_id, total_processed,
                   pool, workers, submitters, fifo, late_submit, arbvars>>

\* Scheduler::record_execution: executed_count.fetch_add(1)
RecordExecuted(c) == [c EXCEPT !.executed_count = @ + 1]
\* Scheduler::record_execution: total_execution_time_us.fetch_add(duration)
RecordTime(c, d) == [c EXCEPT !.total_execution_time_us = @ + d]
\* Scheduler::record_execution: total_processed_.fetch_add(1)
RecordTotal(t) == t + 1

\* record_execution(job->client_id, d), d the duration worker_loop measured:
\* the shared registry lock, the lookup, and the two counters of the client.
WorkerRecordClient(w, d) ==
    /\ ~terminated
    /\ workers[w].pc = "record"
    /\ clients' = [clients EXCEPT ![workers[w].job.client_id] =
                      RecordTime(RecordExecuted(@), d)]
    /\ workers' = [workers EXCEPT ![w].pc = "record_total"]
    /\ UNCHANGED <<client_order, policy_, next_job_id, total_processed, pool,
                   submitters, terminated, ledger, fifo, late_submit, arbvars>>

\* record_execution: the global counter, then the registry lock is released.
WorkerRecordTotal(w) ==
    /\ ~terminated
    /\ workers[w].pc = "record_total"
    /\ total_processed' = RecordTotal(total_processed)
    /\ workers' = [workers EXCEPT ![w] = [IdleWorker EXCEPT !.pc = "top"]]
    /\ UNCHANGED <<client_order, clients, policy_, next_job_id, pool,
                   submitters, terminated, ledger, fifo, late_submit, arbvars>>

\* ThreadPool::notify_workers: cv_.notify_one()
NotifyWorkers(w) ==
    /\ ~terminated
    /\ workers[w].pc = "blocked"
    /\ workers' = [workers EXCEPT ![w].pc = "wait"]
    /\ UNCHANGED <<client_order, clients, policy_, next_job_id, total_processed,
                   pool, submitters, terminated, ledger, fifo, late_submit,
                   arbvars>>

\* ThreadPool::shutdown: draining_.store(true); cv_.notify_all()
ShutdownCall ==
    /\ ~terminated
    /\ pool.phase = "live"
    /\ pool' = [pool EXCEPT !.phase = "poll", !.draining_ = TRUE]
    /\ workers' = NotifyAll(workers)
    /\ late_submit' = (late_submit \/ \E s \in SubmitterIds : submitters[s].pc # "idle")
    /\ UNCHANGED <<client_order, clients, policy_, next_job_id, total_processed,
                   submitters, terminated, ledger, fifo, arbvars>>

\* A shutdown that stops the workers without waiting for the queues to drain.
ShutdownPollNoDrain ==
    /\ ~terminated
    /\ pool.phase = "poll"
    /\ pool' = [pool EXCEPT !.phase = "stop", !.running_ = FALSE]
    /\ workers' = NotifyAll(workers)
    /\ UNCHANGED <<client_order, clients, policy_, next_job_id, total_processed,
                   submitters, terminated, ledger, fifo, late_submit, arbvars>>

\* A shutdown whose polling loop does not call cv_.notify_all().
ShutdownPollNoRebroadcast ==
    /\ ~terminated
    /\ pool.phase = "poll"
    /\ IF HasPendingJobs(clients)
       THEN UNCHANGED <<pool, workers>>
       ELSE /\ pool' = [pool EXCEPT !.phase = "stop", !.running_ = FALSE]
            /\ workers' = NotifyAll(workers)
    /\ UNCHANGED <<client_order, clients, policy_, next_job_id, total_processed,
                   submitters, terminated, ledger, fifo, late_submit, arbvars>>

\* ThreadPool::shutdown: the polling loop, and after it running_.store(false);
\* cv_.notify_all().
ShutdownPoll ==
    /\ ~terminated
    /\ pool.phase = "poll"
    /\ IF HasPendingJobs(clients)
       THEN pool' = pool
       ELSE pool' = [pool EXCEPT !.phase = "stop", !.running_ = FALSE]
    /\ workers' = NotifyAll(workers)
    /\ UNCHANGED <<client_order, clients, policy_, next_job_id, total_processed,
                   submitters, terminated, ledger, fifo, late_submit, arbvars>>

\* ThreadPool::shutdown: w.request_stop() for the next worker; a worker
\* blocked in cv_.wait returns from it.
ShutdownStop ==
    /\ ~terminated
    /\ pool.phase = "stop"
    /\ LET w == pool.stopped_upto + 1
       IN IF w > pool.worker_count
          THEN /\ pool' = [pool EXCEPT !.phase = "join"]
               /\ UNCHANGED workers
          ELSE /\ pool' = [pool EXCEPT !.stopped_upto = w]
               /\ workers' = [workers EXCEPT ![w].pc =
                                 IF @ = "blocked" THEN "top" ELSE @]
    /\ UNCHANGED <<client_order, clients, policy_, next_job_id, total_processed,
                   submitters, terminated, ledger, fifo, late_submit, arbvars>>

\* ThreadPool::shutdown: workers_.clear() joins every worker thread.
ShutdownJoin ==
    /\ ~terminated
    /\ pool.phase = "join"
    /\ \A w \in 1..pool.worker_count : workers[w].pc = "exited"
    /\ pool' = [pool EXCEPT !.phase = "returned"]
    /\ UNCHANGED <<client_order, clients, policy_, next_job_id, total_processed,
                   workers, submitters, terminated, ledger, fifo, late_submit,
                   arbvars>>

Next ==
    \/ \E id \in ClientIds, w \in 1..MaxWeight, cfg \in Backpressure :
          RegisterClient(id, w, cfg[1], cfg[2])
    \/ \E s \in SubmitterIds, cid \in ClientIds, cost \in 1..MaxCost :
          SubmitBegin(s, cid, cost)
    \/ \E s \in SubmitterIds : SubmitEnter(s)
    \/ \E s \in SubmitterIds : SubmitCounted(s)
    \/ \E k \in 1..MaxWorkers : PoolConstruct(k)
    \/ \E w \in WorkerIds : WorkerLoopHead(w)
    \/ \E w \in WorkerIds : WorkerSelect(w)
    \/ \E w \in WorkerIds : WorkerScan(w)
    \/ \E w \in WorkerIds : WorkerNoJob(w)
    \/ \E w \in WorkerIds : WorkerWait(w)
    \/ \E w \in WorkerIds : WorkerBlock(w)
    \/ \E w \in WorkerIds : WorkerRunTask(w)
    \/ \E w \in WorkerIds : WorkerTaskThrows(w)
    \/ \E w \in WorkerIds, d \in 1..MaxDuration : WorkerRecordClient(w, d)
    \/ \E w \in WorkerIds : WorkerRecordTotal(w)
    \/ \E w \in WorkerIds : NotifyWorkers(w)
    \/ ShutdownCall
    \/ ShutdownPoll
    \/ ShutdownStop
    \/ ShutdownJoin

Spec == Init /\ [][Next]_vars

-----------------------------------------------------------------------------
(* SpecArb: the Scheduler driven by one thread, as the policy tests do.     *)
(* Each call runs from entry to return with nothing interleaved.            *)

ArbInit ==
    /\ client_order = <<>>
    /\ clients = <<>>
    /\ \E kind \in {"WRR", "DRR"}, q \in 1..ArbMaxQuantum :
          /\ kind = "WRR" => q = 1
          /\ policy_ = NewPolicy(kind, q)
    /\ next_job_id = 1
    /\ total_processed = 0
    /\ pool = [phase |-> "unbuilt", running_ |-> TRUE, draining_ |-> FALSE,
               worker_count |-> 0, stopped_upto |-> 0]
    /\ workers = [w \in WorkerIds |-> IdleWorker]
    /\ submitters = [s \in SubmitterIds |-> IdleSubmitter]
    /\ terminated = FALSE
    /\ ledger = <<>>
    /\ fifo = <<>>
    /\ late_submit = FALSE
    /\ dispatched = <<>>
    /\ first_dispatch = [order |-> <<>>, queues |-> <<>>]
    /\ last_select = [called |-> FALSE, had_work |-> FALSE, returned |-> FALSE,
                      inspected |-> 0, n |-> 0, empties |-> {}, reset |-> {}]
    /\ served = <<>>
    /\ last_call = NoCall
    /\ blocked_at_start = 0
    /\ threads = <<>>

\* Scheduler::register_client, successful call.
ArbRegister(id, w, depth, strategy) ==
    /\ id \notin DOMAIN clients
    /\ id = Len(client_order) + 1
    /\ Registered(id, w, depth, strategy)
    /\ UNCHANGED <<next_job_id, total_processed, pool, workers, submitters,
                   terminated, ledger, late_submit, arbvars>>

\* Scheduler::submit, a whole call that returns or throws QueueFullException.
ArbSubmit(cid, cost) ==
    /\ next_job_id <= ArbMaxJobs
    /\ cid \in DOMAIN clients
    /\ policy_.kind = "WRR" => cost = 1    \* WRR never reads cost_hint
    /\ LET job == NewJob(cid, next_job_id, cost)
           r == SubmitLocked(clients[cid], job, fifo[cid].pushed + 1)
       IN /\ r.outcome # "wait"
          /\ clients' = [clients EXCEPT ![cid] =
                            IF r.outcome = "pushed" THEN SubmitCount(r.client)
                            ELSE r.client]
          /\ fifo' = LET out == IF r.evicted # NoJob
                                THEN FifoOut(fifo, cid, r.evicted) ELSE fifo
                     IN IF r.outcome = "pushed" THEN FifoPush(out, cid) ELSE out
          /\ ledger' = LET marked == IF r.evicted # NoJob
                                     THEN [ledger EXCEPT ![r.evicted.job_id].evicted = TRUE]
                                     ELSE ledger
                       IN Append(marked, [client_id |-> cid,
                                          enqueued |-> r.outcome = "pushed",
                                          evicted |-> FALSE, invoked |-> 0])
    /\ next_job_id' = next_job_id + 1
    /\ UNCHANGED <<client_order, policy_, total_processed, pool, workers,
                   submitters, terminated, late_submit, arbvars>>

\* Scheduler::select_next_job, a whole call.
ArbSelect ==
    LET r == SelectNextJob(policy_, clients, client_order)
    IN /\ policy_' = r.pol
       /\ clients' = r.clients
       /\ fifo' = IF r.job # NoJob THEN FifoOut(fifo, r.job.client_id, r.job)
                  ELSE fifo
       /\ dispatched' = IF r.job # NoJob THEN Append(dispatched, r.job)
                        ELSE dispatched
       /\ first_dispatch' =
             IF r.job # NoJob /\ dispatched = <<>>
             THEN [order |-> client_order,
                   queues |-> [c \in DOMAIN clients |-> clients[c].queue]]
             ELSE first_dispatch
       /\ last_select' =
             [called |-> TRUE, had_work |-> HasPendingJobs(clients),
              returned |-> r.job # NoJob, inspected |-> r.inspected,
              n |-> Len(client_order), empties |-> r.empties,
              reset |-> IF policy_.kind = "DRR"
                        THEN {c \in r.empties : policy_.deficit[c] # 0}
                        ELSE {}]
       /\ UNCHANGED <<client_order, next_job_id, total_processed, pool, workers,
                      submitters, terminated, ledger, late_submit, served,
                      last_call, blocked_at_start, threads>>

ArbNext ==
    \/ \E id \in ClientIds, w \in 1..ArbMaxWeight :
          ArbRegister(id, w, DefaultDepth, DefaultStrategy)
    \/ \E cid \in ClientIds, cost \in 1..ArbMaxCost : ArbSubmit(cid, cost)
    \/ ArbSelect

SpecArb == ArbInit /\ [][ArbNext]_vars

-----------------------------------------------------------------------------
(* SpecBacklog: a DRR scheduler driven by one thread over a long run, with  *)
(* the cost dispatched to each client added up.                             *)

BacklogInit ==
    /\ client_order = <<>>
    /\ clients = <<>>
    /\ \E q \in 1..ArbMaxQuantum : policy_ = NewPolicy("DRR", q)
    /\ next_job_id = 1
    /\ total_processed = 0
    /\ pool = [phase |-> "unbuilt", running_ |-> TRUE, draining_ |-> FALSE,
               worker_count |-> 0, stopped_upto |-> 0]
    /\ workers = [w \in WorkerIds |-> IdleWorker]
    /\ submitters = [s \in SubmitterIds |-> IdleSubmitter]
    /\ terminated = FALSE
    /\ ledger = <<>>
    /\ fifo = <<>>
    /\ late_submit = FALSE
    /\ dispatched = <<>>
    /\ first_dispatch = [order |-> <<>>, queues |-> <<>>]
    /\ last_select = [called |-> FALSE, had_work |-> FALSE, returned |-> FALSE,
                      inspected |-> 0, n |-> 0, empties |-> {}, reset |-> {}]
    /\ served = <<>>
    /\ last_call = NoCall
    /\ blocked_at_start = 0
    /\ threads = <<>>

TotalServed == SumOver(DOMAIN served, served)

\* Scheduler::register_client(id, w), successful call.
BacklogRegister(id, w) ==
    /\ id \notin DOMAIN clients
    /\ id = Len(client_order) + 1
    /\ Registered(id, w, DefaultDepth, DefaultStrategy)
    /\ served' = Append(served, 0)
    /\ UNCHANGED <<next_job_id, total_processed, pool, workers, submitters,
                   terminated, ledger, late_submit, dispatched, first_dispatch,
                   last_select, last_call, blocked_at_start, threads>>

\* Scheduler::submit, a whole call on an unlimited queue.
BacklogSubmit(cid, cost) ==
    /\ cid \in DOMAIN clients
    /\ Len(clients[cid].queue) < BacklogMaxQueue
    /\ TotalServed < BacklogMaxServed
    /\ LET job == NewJob(cid, next_job_id, cost)
           r == SubmitLocked(clients[cid], job, fifo[cid].pushed + 1)
       IN /\ clients' = [clients EXCEPT ![cid] = SubmitCount(r.client)]
          /\ fifo' = FifoPush(fifo, cid)
    /\ next_job_id' = next_job_id + 1
    /\ UNCHANGED <<client_order, policy_, total_processed, pool, workers,
                   submitters, terminated, ledger, late_submit, arbvars>>

\* Every client is registered and has a job queued.
AllBacklogged ==
    \A c \in ClientIds : c \in DOMAIN clients /\ clients[c].queue # <<>>

\* Scheduler::select_next_job, a whole call, made while every client is
\* backlogged: in SpecBacklog the clients are backlogged at every dispatch.
BacklogSelect ==
    /\ TotalServed < BacklogMaxServed
    /\ AllBacklogged
    /\ LET r == SelectNextJob(policy_, clients, client_order)
       IN /\ policy_' = r.pol
          /\ clients' = r.clients
          /\ fifo' = IF r.job # NoJob THEN FifoOut(fifo, r.job.client_id, r.job)
                     ELSE fifo
          /\ served' = IF r.job # NoJob
                       THEN [served EXCEPT ![r.job.client_id] = @ + r.job.cost_hint]
                       ELSE served
    /\ UNCHANGED <<client_order, next_job_id, total_processed, pool, workers,
                   submitters, terminated, ledger, late_submit, dispatched,
                   first_dispatch, last_select, last_call, blocked_at_start, threads>>

BacklogNext ==
    \/ \E id \in ClientIds, w \in 1..ArbMaxWeight : BacklogRegister(id, w)
    \/ \E cid \in ClientIds, cost \in 1..ArbMaxCost : BacklogSubmit(cid, cost)
    \/ BacklogSelect

SpecBacklog == BacklogInit /\ [][BacklogNext]_vars

-----------------------------------------------------------------------------
(* SpecRounds: a DRR scheduler of any base_quantum, 0 included, driven by  *)
(* one thread over up to RoundsClients clients registered at the start;    *)
(* select_next_job is called while every client has a job queued, and the  *)
(* jobs it returns are recorded in order.                                  *)

RoundsInit ==
    /\ client_order = <<>>
    /\ clients = <<>>
    /\ \E q \in 0..RoundsMaxQuantum : policy_ = NewPolicy("DRR", q)
    /\ next_job_id = 1
    /\ total_processed = 0
    /\ pool = [phase |-> "unbuilt", running_ |-> TRUE, draining_ |-> FALSE,
               worker_count |-> 0, stopped_upto |-> 0]
    /\ workers = [w \in WorkerIds |-> IdleWorker]
    /\ submitters = [s \in SubmitterIds |-> IdleSubmitter]
    /\ terminated = FALSE
    /\ ledger = <<>>
    /\ fifo = <<>>
    /\ late_submit = FALSE
    /\ dispatched = <<>>
    /\ first_dispatch = [order |-> <<>>, queues |-> <<>>]
    /\ last_select = [called |-> FALSE, had_work |-> FALSE, returned |-> FALSE,
                      inspected |-> 0, n |-> 0, empties |-> {}, reset |-> {}]
    /\ served = <<>>
    /\ last_call = NoCall
    /\ blocked_at_start = 0
    /\ threads = <<>>

\* Scheduler::register_client(id, w), successful call; the clients are all
\* registered before the first submit.
RoundsRegister(id, w) ==
    /\ next_job_id = 1
    /\ ArbRegister(id, w, DefaultDepth, DefaultStrategy)

\* Scheduler::submit, a whole call on an unlimited queue; the caller keeps at
\* most BacklogMaxQueue jobs queued per client.
RoundsSubmit(cid, cost) == BacklogSubmit(cid, cost)

\* Every registered client has a job queued.
RegisteredBacklogged ==
    /\ client_order # <<>>
    /\ \A c \in DOMAIN clients : clients[c].queue # <<>>

\* Scheduler::select_next_job, a whole call, made while every registered
\* client is backlogged.
RoundsSelect ==
    /\ Len(dispatched) < RoundsMaxDispatched
    /\ RegisteredBacklogged
    /\ ArbSelect

RoundsNext ==
    \/ \E id \in 1..RoundsClients, w \in 1..RoundsMaxWeight : RoundsRegister(id, w)
    \/ \E cid \in 1..RoundsClients, cost \in 1..ArbMaxCost : RoundsSubmit(cid, cost)
    \/ RoundsSelect

SpecRounds == RoundsInit /\ [][RoundsNext]_vars

-----------------------------------------------------------------------------

(* SpecApi: every call of the Scheduler API made by one thread, the calls   *)
(* that fail included, over clients with and without backpressure under    *)
(* DRR.  Each call runs from entry to return or throw.                      *)

\* The (max_queue_depth, overflow_strategy) pairs of SpecApi.
ApiBackpressure ==
    {<<DefaultDepth, DefaultStrategy>>} \cup {<<ApiDepth, st>> : st \in Strategies}

\* A register_client that does not look for the id in clients_.
RegisterResultNoDuplicateTest(cl, id, w) ==
    IF w = 0 THEN "InvalidArgument" ELSE "ok"

\* A register_client that accepts weight 0.
RegisterResultNoWeightTest(cl, id, w) ==
    IF id \in DOMAIN cl THEN "AlreadyRegistered" ELSE "ok"

\* Scheduler::register_client: how the call ends.
RegisterResult(cl, id, w) ==
    IF w = 0 THEN "InvalidArgument"
    ELSE IF id \in DOMAIN cl THEN "AlreadyRegistered"
    ELSE "ok"

\* Scheduler::submit and get_client_metrics: the lookup in clients_.
Lookup(cl, id) == IF id \in DOMAIN cl THEN "ok" ELSE "UnknownClient"

\* Scheduler::get_client_metrics on a registered client.
GetClientMetrics(cl, id) ==
    [submitted |-> cl[id].submitted_count, executed |-> cl[id].executed_count,
     total_us |-> cl[id].total_execution_time_us,
     queue_depth |-> Len(cl[id].queue), weight |-> cl[id].weight,
     overflow_count |-> cl[id].overflow_count]

\* A record_execution that counts the job in total_processed_ before it looks
\* for the client.
RecordExecutionCountsFirst(cl, total, id, d) ==
    IF id \notin DOMAIN cl THEN [clients |-> cl, total |-> RecordTotal(total)]
    ELSE [clients |-> [cl EXCEPT ![id] = RecordTime(RecordExecuted(@), d)],
          total |-> RecordTotal(total)]

\* Scheduler::record_execution(id, d): the registry and total_processed_ after it.
RecordExecution(cl, total, id, d) ==
    IF id \notin DOMAIN cl THEN [clients |-> cl, total |-> total]
    ELSE [clients |-> [cl EXCEPT ![id] = RecordTime(RecordExecuted(@), d)],
          total |-> RecordTotal(total)]

ApiInit ==
    /\ client_order = <<>>
    /\ clients = <<>>
    /\ \E q \in 1..MaxQuantum : policy_ = NewPolicy("DRR", q)
    /\ next_job_id = 1
    /\ total_processed = 0
    /\ pool = [phase |-> "unbuilt", running_ |-> TRUE, draining_ |-> FALSE,
               worker_count |-> 0, stopped_upto |-> 0]
    /\ workers = [w \in WorkerIds |-> IdleWorker]
    /\ submitters = [s \in SubmitterIds |-> IdleSubmitter]
    /\ terminated = FALSE
    /\ ledger = <<>>
    /\ fifo = <<>>
    /\ late_submit = FALSE
    /\ dispatched = <<>>
    /\ first_dispatch = [order |-> <<>>, queues |-> <<>>]
    /\ last_select = [called |-> FALSE, had_work |-> FALSE, returned |-> FALSE,
                      inspected |-> 0, n |-> 0, empties |-> {}, reset |-> {}]
    /\ served = <<>>
    /\ last_call = NoCall
    /\ blocked_at_start = 0
    /\ threads = <<>>

apifixed == <<pool, workers, submitters, terminated, late_submit,
              first_dispatch, last_select, served, blocked_at_start, threads>>

\* Scheduler::register_client(id, w, depth, strategy), whatever its outcome.
\* A call that fails reads neither depth nor strategy: it is made with the
\* default ones.
ApiRegister(id, w, depth, strategy) ==
    /\ id \in DOMAIN clients \/ id = Len(client_order) + 1
    /\ RegisterResult(clients, id, w) # "ok" =>
          depth = DefaultDepth /\ strategy = DefaultStrategy
    /\ LET res == RegisterResult(clients, id, w)
       IN /\ last_call' = [op |-> "register", id |-> id, arg |-> w,
                           result |-> res, value |-> NoMetrics]
          /\ IF res = "ok" THEN Registered(id, w, depth, strategy)
             ELSE UNCHANGED <<clients, client_order, policy_, fifo>>
    /\ UNCHANGED <<next_job_id, total_processed, ledger, dispatched, apifixed>>

\* Scheduler::submit(cid, task, cost), whatever its outcome.  The one thread
\* of SpecApi does not call submit on a full BLOCK queue (it would not return).
ApiSubmit(cid, cost) ==
    IF Lookup(clients, cid) # "ok"
    THEN /\ last_call' = [op |-> "submit", id |-> cid, arg |-> 0,
                          result |-> "UnknownClient", value |-> NoMetrics]
         /\ UNCHANGED <<client_order, clients, policy_, next_job_id,
                        total_processed, ledger, fifo, dispatched, apifixed>>
    ELSE /\ next_job_id <= ApiMaxJobs
         /\ LET job == NewJob(cid, next_job_id, cost)
                r == SubmitLocked(clients[cid], job, fifo[cid].pushed + 1)
            IN /\ r.outcome # "wait"
               /\ clients' = [clients EXCEPT ![cid] =
                                 IF r.outcome = "pushed" THEN SubmitCount(r.client)
                                 ELSE r.client]
               /\ fifo' = LET out == IF r.evicted # NoJob
                                     THEN FifoOut(fifo, cid, r.evicted) ELSE fifo
                          IN IF r.outcome = "pushed" THEN FifoPush(out, cid) ELSE out
               /\ ledger' =
                     LET marked == IF r.evicted # NoJob
                                   THEN [ledger EXCEPT ![r.evicted.job_id].evicted = TRUE]
                                   ELSE ledger
                     IN Append(marked, [client_id |-> cid,
                                        enqueued |-> r.outcome = "pushed",
                                        evicted |-> FALSE, invoked |-> 0])
               /\ last_call' = [op |-> "submit", id |-> cid, arg |-> job.job_id,
                                result |-> IF r.outcome = "rejected"
                                           THEN "QueueFull" ELSE "ok",
                                value |-> NoMetrics]
         /\ next_job_id' = next_job_id + 1
         /\ UNCHANGED <<client_order, policy_, total_processed, dispatched,
                        apifixed>>

\* Scheduler::select_next_job, a whole call; the job returned is run by the
\* caller, as worker_loop does.
ApiSelect ==
    LET r == SelectNextJob(policy_, clients, client_order)
    IN /\ policy_' = r.pol
       /\ clients' = r.clients
       /\ fifo' = IF r.job # NoJob THEN FifoOut(fifo, r.job.client_id, r.job)
                  ELSE fifo
       /\ dispatched' = IF r.job # NoJob THEN Append(dispatched, r.job)
                        ELSE dispatched
       /\ ledger' = IF r.job # NoJob
                    THEN [ledger EXCEPT ![r.job.job_id].invoked = @ + 1]
                    ELSE ledger
       /\ last_call' = [op |-> "select", id |-> r.job.client_id,
                        arg |-> r.job.job_id, result |-> "ok",
                        value |-> NoMetrics]
       /\ UNCHANGED <<client_order, next_job_id, total_processed, apifixed>>

\* Number of jobs of client id that were handed out and not yet recorded.
Unrecorded(id) ==
    Cardinality({k \in DOMAIN dispatched : dispatched[k].client_id = id})
    - clients[id].executed_count

\* Scheduler::record_execution(id, d): for a registered client after one of
\* its jobs ran, or with an id that is not registered.
ApiRecord(id, d) ==
    /\ id \in DOMAIN clients => Unrecorded(id) > 0
    /\ LET r == RecordExecution(clients, total_processed, id, d)
       IN /\ clients' = r.clients
          /\ total_processed' = r.total
    /\ last_call' = [op |-> "record", id |-> id, arg |-> d, result |-> "ok",
                     value |-> NoMetrics]
    /\ UNCHANGED <<client_order, policy_, next_job_id, ledger, fifo, dispatched,
                   apifixed>>

\* Scheduler::get_client_metrics(id), whatever its outcome.
ApiMetrics(id) ==
    /\ last_call' = [op |-> "metrics", id |-> id, arg |-> 0,
                     result |-> Lookup(clients, id),
                     value |-> IF Lookup(clients, id) = "ok"
                               THEN GetClientMetrics(clients, id) ELSE NoMetrics]
    /\ UNCHANGED <<client_order, clients, policy_, next_job_id, total_processed,
                   ledger, fifo, dispatched, apifixed>>

ApiNext ==
    \/ \E id \in ClientIds, w \in 0..ApiMaxWeight, cfg \in ApiBackpressure :
          ApiRegister(id, w, cfg[1], cfg[2])
    \/ \E cid \in ClientIds, cost \in 1..MaxCost : ApiSubmit(cid, cost)
    \/ ApiSelect
    \/ \E id \in ClientIds, d \in 1..MaxDuration : ApiRecord(id, d)
    \/ \E id \in ClientIds : ApiMetrics(id)

SpecApi == ApiInit /\ [][ApiNext]_vars

-----------------------------------------------------------------------------
(* SpecUnlimited: the Scheduler API driven by one thread on clients          *)
(* registered with max_queue_depth == 0 and any overflow strategy.           *)

\* Scheduler::submit(cid, task, cost) on a registered client, whatever its
\* outcome; a call that would block is recorded as such.
UnlimitedSubmit(cid, cost) ==
    /\ cid \in DOMAIN clients
    /\ next_job_id <= UnlimitedMaxJobs
    /\ LET job == NewJob(cid, next_job_id, cost)
           r == SubmitLocked(clients[cid], job, fifo[cid].pushed + 1)
       IN /\ clients' = [clients EXCEPT ![cid] =
                            IF r.outcome = "pushed" THEN SubmitCount(r.client)
                            ELSE r.client]
          /\ fifo' = LET out == IF r.evicted # NoJob
                                THEN FifoOut(fifo, cid, r.evicted) ELSE fifo
                     IN IF r.outcome = "pushed" THEN FifoPush(out, cid) ELSE out
          /\ ledger' =
                LET marked == IF r.evicted # NoJob
                              THEN [ledger EXCEPT ![r.evicted.job_id].evicted = TRUE]
                              ELSE ledger
                IN Append(marked, [client_id |-> cid,
                                   enqueued |-> r.outcome = "pushed",
                                   evicted |-> FALSE, invoked |-> 0])
          /\ last_call' = [op |-> "submit", id |-> cid, arg |-> job.job_id,
                           result |-> CASE r.outcome = "rejected" -> "QueueFull"
                                        [] r.outcome = "wait" -> "blocked"
                                        [] r.outcome = "dropped" -> "discarded"
                                        [] OTHER -> "ok",
                           value |-> NoMetrics]
    /\ next_job_id' = next_job_id + 1
    /\ UNCHANGED <<client_order, policy_, total_processed, dispatched, apifixed>>

UnlimitedNext ==
    \/ \E id \in ClientIds, w \in 1..MaxWeight, st \in Strategies :
          ApiRegister(id, w, 0, st)
    \/ \E cid \in ClientIds, cost \in 1..MaxCost : UnlimitedSubmit(cid, cost)
    \/ ApiSelect

SpecUnlimited == ApiInit /\ [][UnlimitedNext]_vars

-----------------------------------------------------------------------------
(* SpecMetrics: get_global_metrics over the executed counts that            *)
(* record_execution builds up, for up to MetricsMaxClients clients.          *)

\* The value 1.0, and the quotient a / b before the division rounds it: the
\* sums are integers a double holds exactly.
One == [num |-> 1, den |-> 1]
Quotient(a, b) == [num |-> a, den |-> b]

\* A get_global_metrics without the test of sum_sq == 0.
GetGlobalMetricsNoZeroTest(cl, total) ==
    LET n == Cardinality(DOMAIN cl)
        x == [c \in DOMAIN cl |-> cl[c].executed_count]
        sum == SumOver(DOMAIN cl, x)
        sum_sq == SumOver(DOMAIN cl, [c \in DOMAIN cl |-> x[c] * x[c]])
    IN [total_processed |-> total, active_clients |-> n,
        jain_fairness_index |-> IF n < 2 THEN One
                                ELSE Quotient(sum * sum, n * sum_sq)]

\* Scheduler::get_global_metrics
GetGlobalMetrics(cl, total) ==
    LET n == Cardinality(DOMAIN cl)
        x == [c \in DOMAIN cl |-> cl[c].executed_count]
        sum == SumOver(DOMAIN cl, x)
        sum_sq == SumOver(DOMAIN cl, [c \in DOMAIN cl |-> x[c] * x[c]])
    IN [total_processed |-> total, active_clients |-> n,
        jain_fairness_index |-> IF n < 2 THEN One
                                ELSE IF sum_sq = 0 THEN One
                                ELSE Quotient(sum * sum, n * sum_sq)]

\* Scheduler::register_client(id, 1), successful call.
MetricsRegister(id) ==
    /\ id = Len(client_order) + 1
    /\ ApiRegister(id, 1, DefaultDepth, DefaultStrategy)

\* Scheduler::record_execution(id, d) on a registered client.
MetricsRecord(id, d) ==
    /\ id \in DOMAIN clients
    /\ clients[id].executed_count < MetricsMaxExecuted
    /\ LET r == RecordExecution(clients, total_processed, id, d)
       IN /\ clients' = r.clients
          /\ total_processed' = r.total
    /\ last_call' = [op |-> "record", id |-> id, arg |-> d, result |-> "ok",
                     value |-> NoMetrics]
    /\ UNCHANGED <<client_order, policy_, next_job_id, ledger, fifo, dispatched,
                   apifixed>>

\* Scheduler::get_global_metrics()
MetricsGlobal ==
    /\ last_call' = [op |-> "global_metrics", id |-> 0, arg |-> 0, result |-> "ok",
                     value |-> GetGlobalMetrics(clients, total_processed)]
    /\ UNCHANGED <<client_order, clients, policy_, next_job_id, total_processed,
                   ledger, fifo, dispatched, apifixed>>

MetricsNext ==
    \/ \E id \in 1..MetricsMaxClients : MetricsRegister(id)
    \/ \E id \in 1..MetricsMaxClients, d \in 1..MaxDuration : MetricsRecord(id, d)
    \/ MetricsGlobal

SpecMetrics == ApiInit /\ [][MetricsNext]_vars

-----------------------------------------------------------------------------
(* SpecLife: the life of a pool, with fair scheduling of its threads.  One  *)
(* submitter thread, clients of unlimited depth, tasks that return; after   *)
(* shutdown has returned it may be called again, and the pool destroyed.    *)

LifeInit == Init /\ policy_.kind = "DRR"

LifeRegister(id) == RegisterClient(id, 1, DefaultDepth, DefaultStrategy)

\* What a later shutdown must leave as it is.
Snapshot == [clients |-> clients, total_processed |-> total_processed,
             ledger |-> ledger]

\* ThreadPool::shutdown called on a pool whose shutdown has returned:
\* draining_.store(true); cv_.notify_all()
ShutdownAgain ==
    /\ ~terminated
    /\ pool.phase = "returned"
    /\ last_call.op # "destroy"
    /\ pool' = [pool EXCEPT !.phase = "poll", !.draining_ = TRUE]
    /\ workers' = NotifyAll(workers)
    /\ last_call' = [op |-> "shutdown", id |-> 0, arg |-> 2, result |-> "called",
                     value |-> Snapshot]
    /\ UNCHANGED <<client_order, clients, policy_, next_job_id, total_processed,
                   submitters, terminated, ledger, fifo, late_submit, dispatched,
                   first_dispatch, last_select, served, blocked_at_start, threads>>

\* A destructor that never calls shutdown.
DestroyCallNoShutdown ==
    /\ ~terminated
    /\ pool.phase \in {"live", "returned"}
    /\ last_call.op # "destroy"
    /\ last_call' = [op |-> "destroy", id |-> 0, arg |-> 0, result |-> "called",
                     value |-> Snapshot]
    /\ pool' = [pool EXCEPT !.phase = "destroyed"]
    /\ UNCHANGED <<client_order, clients, policy_, next_job_id, total_processed,
                   workers, submitters, terminated, ledger, fifo, late_submit,
                   dispatched, first_dispatch, last_select, served,
                   blocked_at_start, threads>>

\* ThreadPool::~ThreadPool: if (running_) shutdown(), whose first statements
\* are draining_.store(true); cv_.notify_all().  arg is 1 when shutdown is
\* called.
DestroyCall ==
    /\ ~terminated
    /\ pool.phase \in {"live", "returned"}
    /\ last_call.op # "destroy"
    /\ last_call' = [op |-> "destroy", id |-> 0,
                     arg |-> IF pool.running_ THEN 1 ELSE 0,
                     result |-> "called", value |-> Snapshot]
    /\ IF pool.running_
       THEN /\ pool' = [pool EXCEPT !.phase = "poll", !.draining_ = TRUE]
            /\ workers' = NotifyAll(workers)
            /\ late_submit' =
                  (late_submit \/ \E s \in SubmitterIds : submitters[s].pc # "idle")
       ELSE /\ pool' = [pool EXCEPT !.phase = "destroyed"]
            /\ UNCHANGED <<workers, late_submit>>
    /\ UNCHANGED <<client_order, clients, policy_, next_job_id, total_processed,
                   submitters, terminated, ledger, fifo, dispatched,
                   first_dispatch, last_select, served, blocked_at_start, threads>>

\* ThreadPool::~ThreadPool: shutdown has returned; the members are destroyed.
DestroyEnd ==
    /\ ~terminated
    /\ pool.phase = "returned"
    /\ last_call.op = "destroy"
    /\ pool' = [pool EXCEPT !.phase = "destroyed"]
    /\ UNCHANGED <<client_order, clients, policy_, next_job_id, total_processed,
                   workers, submitters, terminated, ledger, fifo, late_submit,
                   arbvars>>

\* The steps of worker thread w, whose tasks return.
WorkerStep(w) ==
    \/ WorkerLoopHead(w) \/ WorkerSelect(w) \/ WorkerScan(w) \/ WorkerNoJob(w)
    \/ WorkerWait(w) \/ WorkerBlock(w) \/ WorkerRunTask(w)
    \/ \E d \in 1..MaxDuration : WorkerRecordClient(w, d)
    \/ WorkerRecordTotal(w)
\* The steps of a submit call after its entry.
SubmitStep(s) == SubmitEnter(s) \/ SubmitCounted(s)
\* The steps of shutdown after its first statements, and of the destructor
\* after its shutdown.
ShutdownStep == ShutdownPoll \/ ShutdownStop \/ ShutdownJoin \/ DestroyEnd

LifeNext ==
    \/ \E id \in ClientIds : LifeRegister(id)
    \/ \E cid \in ClientIds : SubmitBegin(1, cid, 1)
    \/ SubmitEnter(1)
    \/ SubmitCounted(1)
    \/ \E k \in 1..MaxWorkers : PoolConstruct(k)
    \/ \E w \in WorkerIds : WorkerLoopHead(w)
    \/ \E w \in WorkerIds : WorkerSelect(w)
    \/ \E w \in WorkerIds : WorkerScan(w)
    \/ \E w \in WorkerIds : WorkerNoJob(w)
    \/ \E w \in WorkerIds : WorkerWait(w)
    \/ \E w \in WorkerIds : WorkerBlock(w)
    \/ \E w \in WorkerIds : WorkerRunTask(w)
    \/ \E w \in WorkerIds, d \in 1..MaxDuration : WorkerRecordClient(w, d)
    \/ \E w \in WorkerIds : WorkerRecordTotal(w)
    \/ \E w \in WorkerIds : NotifyWorkers(w)
    \/ ShutdownCall
    \/ ShutdownPoll
    \/ ShutdownStop
    \/ ShutdownJoin
    \/ ShutdownAgain
    \/ DestroyCall
    \/ DestroyEnd

\* Every thread that can take a step eventually takes one.  Nothing is
\* assumed of the calls made from outside (register_client, submit,
\* notify_workers, the constructor, shutdown, the destructor).
LifeFairness ==
    /\ \A w \in WorkerIds : WF_vars(WorkerStep(w))
    /\ WF_vars(SubmitStep(1))
    /\ WF_vars(ShutdownStep)

SpecLife == LifeInit /\ [][LifeNext]_vars /\ LifeFairness

-----------------------------------------------------------------------------
(* SpecLocks: the locks.  A call is the sequence of lock operations its     *)
(* code performs; the threads take them one at a time, interleaved.  The    *)
(* data the calls work on is left out: where the code branches on it (a     *)
(* queue is empty, a queue is full) every branch may be taken.              *)

ThreadIds == 1..LockThreads

\* The locks: Scheduler::registry_mutex_ (a shared_mutex), Scheduler::rr_mutex_,
\* ClientState::mutex of client c, ThreadPool::cv_mutex_.
RegistryMutex == <<"registry_mutex_", 0>>
RrMutex == <<"rr_mutex_", 0>>
ClientMutex(c) == <<"mutex", c>>
CvMutex == <<"cv_mutex_", 0>>
NoLock == <<"", 0>>

\* One operation of a call.  "then" names the code that follows an
\* acquisition when that code depends on what the lock protects; it is "wake"
\* for the acquisition that ends a wait on a condition variable.
Acquire(l, mode, then) == [a |-> "acquire", lock |-> l, mode |-> mode, then |-> then]
Release(l) == [a |-> "release", lock |-> l, mode |-> "", then |-> "none"]
\* condition_variable::wait: the lock is released and the thread suspended;
\* woken, it takes the lock again.
CvWait(l) == <<[a |-> "wait", lock |-> l, mode |-> "", then |-> "none"],
               Acquire(l, "unique", "wake")>>
\* "task": job->task(); "policy": the policy's private state is written;
\* "registry": clients_ and client_order_ are written.
Do(what) == [a |-> what, lock |-> NoLock, mode |-> "", then |-> "none"]

\* Concatenation of the sequences f[1], ..., f[k].
RECURSIVE Flatten(_, _)
Flatten(f, k) == IF k = 0 THEN <<>> ELSE Flatten(f, k - 1) \o f[k]

\* A register_client that keeps the registry lock only for clients_ and
\* client_order_, not for on_client_registered.
RegisterBodyPolicyUnlocked ==
    <<Do("registry"), Release(RegistryMutex), Do("policy")>>

\* Scheduler::register_client after the unique lock: emplace and push_back,
\* on_client_registered, return.
RegisterBody == <<Do("registry"), Do("policy"), Release(RegistryMutex)>>

\* Scheduler::register_client: weight >= 1, so the unique lock is taken.
RegisterLocks == <<Acquire(RegistryMutex, "unique", "register")>>

\* A submit that looks the client up while it holds the client's mutex.
SubmitLocksLookupInside(c, waits) ==
    <<Acquire(ClientMutex(c), "unique", "none"),
      Acquire(RegistryMutex, "shared", "none"), Release(RegistryMutex),
      Release(ClientMutex(c))>>

\* Scheduler::submit on a registered client: the lookup under the shared
\* registry lock, then the client's mutex, under which a BLOCK client with a
\* full queue waits on submit_cv_.
SubmitLocks(c, waits) ==
    <<Acquire(RegistryMutex, "shared", "none"), Release(RegistryMutex),
      Acquire(ClientMutex(c), "unique", "none")>>
    \o (IF waits THEN CvWait(ClientMutex(c)) ELSE <<>>)
    \o <<Release(ClientMutex(c))>>

\* Scheduler::get_client_metrics on a registered client.
GetClientMetricsLocks(c) ==
    <<Acquire(RegistryMutex, "shared", "none"),
      Acquire(ClientMutex(c), "unique", "none"), Release(ClientMutex(c)),
      Release(RegistryMutex)>>

\* Scheduler::get_global_metrics
GetGlobalMetricsLocks ==
    <<Acquire(RegistryMutex, "shared", "none"), Release(RegistryMutex)>>
\* Scheduler::record_execution
RecordExecutionLocks ==
    <<Acquire(RegistryMutex, "shared", "none"), Release(RegistryMutex)>>

\* Scheduler::has_pending_jobs after the shared lock: the loop looks at k
\* clients (it returns at the first queue that is not empty).
HasPendingBody(order, k) ==
    Flatten([i \in 1..k |-> <<Acquire(ClientMutex(order[i]), "unique", "none"),
                              Release(ClientMutex(order[i]))>>], k)
    \o <<Release(RegistryMutex)>>
HasPendingLocks == <<Acquire(RegistryMutex, "shared", "has_pending")>>

\* The policy's select_next_job: k iterations of the scan that starts at
\* the client at position start, each under that client's mutex.
ScanLocks(order, start, k) ==
    Flatten([i \in 1..k |->
               LET c == order[((start - 1 + i - 1) % Len(order)) + 1]
               IN <<Acquire(ClientMutex(c), "unique", "none"), Do("policy"),
                    Release(ClientMutex(c))>>], k)

\* Scheduler::select_next_job after the shared lock.
SelectBody(order, start, k) ==
    IF order = <<>> THEN <<Release(RegistryMutex)>>
    ELSE <<Acquire(RrMutex, "unique", "none")>> \o ScanLocks(order, start, k)
         \o <<Release(RrMutex), Release(RegistryMutex)>>

\* A worker_loop that invokes the task inside select_next_job's locks.
JobPathInsideLocks(order, start, k) ==
    <<Acquire(RrMutex, "unique", "none")>> \o ScanLocks(order, start, k)
    \o <<Do("task"), Release(RrMutex), Release(RegistryMutex)>>
    \o RecordExecutionLocks

\* worker_loop, a job was returned: the task, then record_execution.
JobPath(order, start, k) ==
    SelectBody(order, start, k) \o <<Do("task")>> \o RecordExecutionLocks

\* worker_loop, no job was returned: has_pending_jobs when draining_ is
\* set, and unless the loop returns there, cv_.wait under cv_mutex_.
NoJobPath(draining, returns, waits) ==
    (IF draining THEN HasPendingLocks ELSE <<>>)
    \o (IF returns THEN <<>>
        ELSE <<Acquire(CvMutex, "unique", "none")>>
             \o (IF waits THEN CvWait(CvMutex) ELSE <<>>)
             \o <<Release(CvMutex)>>)

\* One iteration of ThreadPool::worker_loop, after select_next_job took the
\* shared lock.
WorkerBodies(order) ==
    LET n == Len(order)
        nojob == {NoJobPath(d, r, w) : d \in BOOLEAN, r \in BOOLEAN, w \in BOOLEAN}
                 \ {NoJobPath(FALSE, TRUE, w) : w \in BOOLEAN}
    IN IF n = 0 THEN {SelectBody(order, 1, 0) \o p : p \in nojob}
       ELSE {JobPath(order, start, k) : start \in 1..n, k \in 1..n}
            \cup {SelectBody(order, start, n) \o p : start \in 1..n, p \in nojob}
WorkerLoopLocks == <<Acquire(RegistryMutex, "shared", "select")>>

\* The code that follows an acquisition, by its name.
Bodies(then, order) ==
    CASE then = "register" ->
            IF Len(order) < MaxClients THEN {RegisterBody}
            ELSE {<<Release(RegistryMutex)>>}
      [] then = "has_pending" ->
            {HasPendingBody(order, k) :
                k \in IF order = <<>> THEN {0} ELSE 1..Len(order)}
      [] then = "select" -> WorkerBodies(order)
      [] OTHER -> {<<>>}

IdleThread == [op |-> "none", todo |-> <<>>, held |-> <<>>]

Holders(l) ==
    {t \in ThreadIds : \E i \in DOMAIN threads[t].held : threads[t].held[i].lock = l}
\* A shared lock is granted unless a thread holds the lock exclusively; an
\* exclusive lock is granted when no thread holds the lock.
Available(l, mode) ==
    \A t \in Holders(l) :
        /\ mode = "shared"
        /\ \A i \in DOMAIN threads[t].held :
              threads[t].held[i].lock = l => threads[t].held[i].mode = "shared"

LocksInit ==
    /\ client_order = <<>>
    /\ clients = <<>>
    /\ policy_ = NewPolicy("DRR", 1)
    /\ next_job_id = 1
    /\ total_processed = 0
    /\ pool = [phase |-> "unbuilt", running_ |-> TRUE, draining_ |-> FALSE,
               worker_count |-> 0, stopped_upto |-> 0]
    /\ workers = [w \in WorkerIds |-> IdleWorker]
    /\ submitters = [s \in SubmitterIds |-> IdleSubmitter]
    /\ terminated = FALSE
    /\ ledger = <<>>
    /\ fifo = <<>>
    /\ late_submit = FALSE
    /\ dispatched = <<>>
    /\ first_dispatch = [order |-> <<>>, queues |-> <<>>]
    /\ last_select = [called |-> FALSE, had_work |-> FALSE, returned |-> FALSE,
                      inspected |-> 0, n |-> 0, empties |-> {}, reset |-> {}]
    /\ served = <<>>
    /\ last_call = NoCall
    /\ blocked_at_start = 0
    /\ threads = [t \in ThreadIds |-> IdleThread]

locksfixed == <<clients, policy_, next_job_id, total_processed, pool, workers,
                submitters, terminated, ledger, fifo, late_submit, dispatched,
                first_dispatch, last_select, served, last_call, blocked_at_start>>

\* Thread t, in no call, makes the call op whose lock operations are prog.
Call(t, op, prog) ==
    /\ threads[t].todo = <<>>
    /\ threads' = [threads EXCEPT ![t] = [op |-> op, todo |-> prog, held |-> <<>>]]
    /\ UNCHANGED <<client_order, locksfixed>>

LocksRegister(t) == Call(t, "register_client", RegisterLocks)
LocksSubmit(t, c, waits) ==
    /\ c \in 1..Len(client_order)
    /\ Call(t, "submit", SubmitLocks(c, waits))
LocksClientMetrics(t, c) ==
    /\ c \in 1..Len(client_order)
    /\ Call(t, "get_client_metrics", GetClientMetricsLocks(c))
LocksGlobalMetrics(t) == Call(t, "get_global_metrics", GetGlobalMetricsLocks)
\* ThreadPool::shutdown polls has_pending_jobs.
LocksHasPending(t) == Call(t, "has_pending_jobs", HasPendingLocks)
LocksWorkerLoop(t) == Call(t, "worker_loop", WorkerLoopLocks)

\* The next operation of thread t is an acquisition and the lock is granted.
LockAcquire(t) ==
    /\ threads[t].todo # <<>>
    /\ LET o == Head(threads[t].todo)
       IN /\ o.a = "acquire"
          /\ Available(o.lock, o.mode)
          /\ \E body \in Bodies(o.then, client_order) :
                threads' = [threads EXCEPT
                   ![t].held = Append(@, [lock |-> o.lock, mode |-> o.mode]),
                   ![t].todo = body \o Tail(@)]
    /\ UNCHANGED <<client_order, locksfixed>>

\* A release, or the release that begins a wait on a condition variable.
LockRelease(t) ==
    /\ threads[t].todo # <<>>
    /\ LET o == Head(threads[t].todo)
       IN /\ o.a \in {"release", "wait"}
          /\ threads' = [threads EXCEPT
                ![t].held = SelectSeq(@, LAMBDA h : h.lock # o.lock),
                ![t].todo = Tail(@)]
    /\ UNCHANGED <<client_order, locksfixed>>

\* The task is invoked, or the policy's state or the registry is written.
LockDo(t) ==
    /\ threads[t].todo # <<>>
    /\ LET o == Head(threads[t].todo)
       IN /\ o.a \in {"task", "policy", "registry"}
          /\ threads' = [threads EXCEPT ![t].todo = Tail(@)]
          /\ client_order' = IF o.a = "registry"
                             THEN OrderAfterRegister(client_order, Len(client_order) + 1)
                             ELSE client_order
    /\ UNCHANGED locksfixed

LocksNext ==
    \/ \E t \in ThreadIds : LocksRegister(t)
    \/ \E t \in ThreadIds, c \in ClientIds, waits \in BOOLEAN : LocksSubmit(t, c, waits)
    \/ \E t \in ThreadIds, c \in ClientIds : LocksClientMetrics(t, c)
    \/ \E t \in ThreadIds : LocksGlobalMetrics(t)
    \/ \E t \in ThreadIds : LocksHasPending(t)
    \/ \E t \in ThreadIds : LocksWorkerLoop(t)
    \/ \E t \in ThreadIds : LockAcquire(t)
    \/ \E t \in ThreadIds : LockRelease(t)
    \/ \E t \in ThreadIds : LockDo(t)

SpecLocks == LocksInit /\ [][LocksNext]_vars

-----------------------------------------------------------------------------
(* Claims settled under Spec.                                              *)

\* Job ids of client c whose callable was invoked, counted with multiplicity.
InvokedOf(c) ==
    SumOver({j \in DOMAIN ledger : ledger[j].client_id = c},
            [j \in DOMAIN ledger |-> ledger[j].invoked])

\* C1: graceful drain.  When shutdown has returned, and every submit call had
\* returned before shutdown was called, every client queue is empty, every
\* job that was pushed and not evicted by DROP_OLDEST was invoked exactly
\* once, no other job was invoked, and each client's executed_count is the
\* number of its jobs that ran.
C1_GracefulDrain ==
    (pool.phase = "returned" /\ ~late_submit) =>
        /\ \A c \in DOMAIN clients : clients[c].queue = <<>>
        /\ \A j \in DOMAIN ledger :
              ledger[j].invoked = IF ledger[j].enqueued /\ ~ledger[j].evicted
                                  THEN 1 ELSE 0
        /\ \A c \in DOMAIN clients : clients[c].executed_count = InvokedOf(c)

\* C1 witness: shutdown returned after a run in which one job was evicted and
\* another ran.
C1_Witness ==
    /\ pool.phase = "returned" /\ ~late_submit
    /\ \E j \in DOMAIN ledger : ledger[j].evicted
    /\ \E j \in DOMAIN ledger : ledger[j].invoked = 1

\* No submit, select_next_job or record_execution is in progress and no job
\* is being executed.
Quiescent ==
    /\ \A s \in SubmitterIds : submitters[s].pc = "idle"
    /\ \A w \in WorkerIds :
          workers[w].pc \notin {"select", "scan", "exec", "record", "record_total"}

\* C2 (as claimed): at every quiescent point, for every client,
\* submitted_count = executed_count + overflow_count + queue depth.
C2_AccountingAsClaimed ==
    Quiescent =>
        \A c \in DOMAIN clients :
            clients[c].submitted_count =
                clients[c].executed_count + clients[c].overflow_count
                + Len(clients[c].queue)

\* C3 (as claimed): executed_count <= submitted_count for every client in
\* every reachable state.
C3_ExecutedAtMostSubmitted ==
    \A c \in DOMAIN clients :
        clients[c].executed_count <= clients[c].submitted_count

\* C4 (as claimed): total_processed equals the sum of executed_count over all
\* registered clients in every state a metrics reader can observe.
C4_TotalIsSumOfExecuted ==
    total_processed =
        SumOver(DOMAIN clients, [c \in DOMAIN clients |-> clients[c].executed_count])

Blocking(c) ==
    clients[c].max_queue_depth > 0 /\ clients[c].overflow_strategy = "BLOCK"

\* C14: BLOCK backpressure.  A submitter that enters the critical section of
\* submit on a BLOCK client with d jobs queued neither returns nor enqueues:
\* it waits; one that finds fewer than d appends its job at the back.  In
\* every state a BLOCK client's queue holds at most d jobs, its
\* overflow_count is 0, none of its jobs was discarded, and every job whose
\* submit returned was pushed.
C14_BlockEffect ==
    [][/\ \A s \in SubmitterIds :
             LET c == submitters[s].job.client_id
             IN (/\ submitters[s].pc \in {"enter", "woken"}
                 /\ submitters'[s].pc # submitters[s].pc
                 /\ Blocking(c)) =>
                   IF Len(clients[c].queue) >= clients[c].max_queue_depth
                   THEN /\ submitters'[s].pc = "waiting"
                        /\ clients'[c] = clients[c]
                        /\ ~ledger'[submitters[s].job.job_id].enqueued
                   ELSE /\ submitters'[s].pc = "count"
                        /\ Len(clients'[c].queue) = Len(clients[c].queue) + 1
                        /\ SubSeq(clients'[c].queue, 1, Len(clients[c].queue))
                              = clients[c].queue
                        /\ clients'[c].queue[Len(clients'[c].queue)].job_id
                              = submitters[s].job.job_id
       /\ \A c \in DOMAIN clients' :
             (clients'[c].max_queue_depth > 0
              /\ clients'[c].overflow_strategy = "BLOCK") =>
                /\ Len(clients'[c].queue) <= clients'[c].max_queue_depth
                /\ clients'[c].overflow_count = 0
                /\ \A j \in DOMAIN ledger' :
                      ledger'[j].client_id = c =>
                         /\ ~ledger'[j].evicted
                         /\ ledger'[j].enqueued
                            \/ \E s \in SubmitterIds :
                                  /\ submitters'[s].pc \in {"enter", "woken", "waiting"}
                                  /\ submitters'[s].job.job_id = j]_vars

\* C14 witness: a submitter waits on a BLOCK client whose queue is full.
C14_Witness ==
    \E s \in SubmitterIds :
        /\ submitters[s].pc = "waiting"
        /\ Blocking(submitters[s].job.client_id)
        /\ Len(clients[submitters[s].job.client_id].queue)
              = clients[submitters[s].job.client_id].max_queue_depth

\* C15 (as claimed): BLOCK liveness, no wake-up is lost.  Every dequeue
\* signals the client's submit condition variable and the blocked submitter
\* it wakes completes its submit: with k submitters blocked, k dequeues let
\* all k complete, so a woken submitter never has to wait again.
C15_WakeupCompletesSubmit ==
    [][\A s \in SubmitterIds :
          submitters[s].pc = "woken" => submitters'[s].pc \in {"woken", "count"}]_vars

\* C16 (as claimed): shutdown with a blocked submitter.  When a BLOCK client
\* has a full queue and one submitter is blocked, or about to block, in
\* submit at the moment the pool is started, and no other submit is made,
\* then once shutdown has returned and the submit has returned every job has
\* been executed, the blocked submitter's job included.
C16_BlockedJobExecuted ==
    (/\ pool.phase = "returned"
     /\ blocked_at_start # 0 /\ next_job_id = blocked_at_start
     /\ \A s \in SubmitterIds : submitters[s].pc = "idle")
    => \A j \in DOMAIN ledger : ledger[j].invoked = 1

\* Workers inside the policy's select_next_job, and workers inside
\* select_next_job or record_execution (readers of the registry).
InPolicy == {w \in WorkerIds : workers[w].pc = "scan"}
RegistryReaders == {w \in WorkerIds : workers[w].pc \in {"scan", "record_total"}}

\* C20: mutual exclusion.  In every state at most one worker is inside the
\* policy's select_next_job, and a step that modifies the registry (a
\* register_client) is taken only while no select_next_job or
\* record_execution holds the registry, and registers one client.
C20_MutualExclusion ==
    [][/\ Cardinality(InPolicy') <= 1
       /\ (client_order' # client_order \/ DOMAIN clients' # DOMAIN clients)
          => /\ RegistryReaders = {}
             /\ Len(client_order') = Len(client_order) + 1
             /\ RegistryReaders' = {}]_vars

\* C20 witness: one worker is inside the policy while another has called
\* select_next_job and waits for the policy mutex.
C20_Witness ==
    \E w1, w2 \in WorkerIds :
        /\ w1 # w2
        /\ workers[w1].pc = "scan" /\ workers[w2].pc = "select"
        /\ client_order # <<>>

\* C27: task failure isolation.  Whenever a worker has invoked a job's
\* callable, whether it returned or threw, the worker goes on to
\* record_execution for that job (and from there to the next job) and the
\* process is not terminated.
C27_TaskFailureIsolated ==
    [][\A w \in WorkerIds :
          (/\ workers[w].pc = "exec"
           /\ ledger'[workers[w].job.job_id].invoked
                 = ledger[workers[w].job.job_id].invoked + 1)
          => (workers'[w].pc = "record" /\ ~terminated')]_vars

-----------------------------------------------------------------------------
(* Claims settled under SpecArb.                                           *)

\* Client ids are handed out in registration order, so the roster at the
\* first dispatch, in registration order, is 1..Len(first_dispatch.order).
RosterSize == Len(first_dispatch.order)

\* w1 times client 1, then w2 times client 2, ... for clients 1..n.
RECURSIVE WeightedPlan(_)
WeightedPlan(n) ==
    IF n = 0 THEN <<>>
    ELSE WeightedPlan(n - 1) \o [k \in 1..clients[n].weight |-> n]

\* Clients 1..n in turn, m times over.
RoundRobinPlan(n, m) == [k \in 1..(n * m) |-> ((k - 1) % n) + 1]

\* The log of dispatches agrees with plan as far as both go.
FollowsPlan(plan) ==
    \A k \in 1..Min(Len(dispatched), Len(plan)) : dispatched[k].client_id = plan[k]

\* C6: WRR determinism.  Under WRR with calls made by one thread, if at the
\* first dispatch every registered client held at least weight jobs, then
\* the first sum(w_i) jobs returned are w1 jobs of the client registered
\* first, then w2 of the second, and so on, whatever empty scans came before.
C6_WrrDeterministic ==
    (/\ policy_.kind = "WRR"
     /\ dispatched # <<>>
     /\ \A c \in 1..RosterSize :
           Len(first_dispatch.queues[c]) >= clients[c].weight)
    => FollowsPlan(WeightedPlan(RosterSize))

\* C6 witness: two clients, one of weight at least 2, and the whole plan
\* has been dispatched.
C6_Witness ==
    /\ policy_.kind = "WRR"
    /\ RosterSize = 2
    /\ \A c \in 1..RosterSize :
          Len(first_dispatch.queues[c]) >= clients[c].weight
    /\ \E c \in 1..RosterSize : clients[c].weight >= 2
    /\ Len(dispatched) >= Len(WeightedPlan(RosterSize))

\* C7: work conservation.  A select_next_job call made while some queue was
\* non-empty returned a job after inspecting at most n clients; a call that
\* returned none inspected all n clients and found every one empty.
C7_WorkConserving ==
    last_select.called =>
        /\ last_select.had_work =>
              last_select.returned /\ last_select.inspected <= last_select.n
        /\ ~last_select.returned =>
              /\ ~last_select.had_work
              /\ last_select.inspected = last_select.n
              /\ Cardinality(last_select.empties) = last_select.n
        /\ last_select.returned => last_select.inspected >= 1

\* C7 witness: the latest call stepped over an empty client and returned a
\* job of the next one.
C7_Witness ==
    /\ last_select.called /\ last_select.returned
    /\ last_select.inspected = 2
    /\ last_select.empties # {}

\* C8: DRR unit-cost equivalence.  Under DRR with base_quantum 1, a fixed
\* roster of clients of weight 1, each holding at the first dispatch m or
\* more jobs, all of cost_hint 1, the first n*m dispatches go round the
\* clients in registration order, one job per client per cycle.
C8_UnitCostRoundRobin ==
    (/\ policy_.kind = "DRR" /\ policy_.base_quantum = 1
     /\ dispatched # <<>>
     /\ client_order = first_dispatch.order
     /\ \A c \in 1..RosterSize :
           /\ clients[c].weight = 1
           /\ first_dispatch.queues[c] # <<>>
           /\ \A k \in 1..Len(first_dispatch.queues[c]) :
                 first_dispatch.queues[c][k].cost_hint = 1)
    => \A m \in 1..ArbMaxJobs :
          (\A c \in 1..RosterSize : Len(first_dispatch.queues[c]) >= m)
          => FollowsPlan(RoundRobinPlan(RosterSize, m))

\* C8 witness: two pre-filled clients with two unit-cost jobs each, all four
\* dispatched.
C8_Witness ==
    /\ policy_.kind = "DRR" /\ policy_.base_quantum = 1
    /\ client_order = first_dispatch.order
    /\ RosterSize = 2
    /\ \A c \in 1..RosterSize :
          /\ clients[c].weight = 1
          /\ Len(first_dispatch.queues[c]) = 2
          /\ \A k \in 1..2 : first_dispatch.queues[c][k].cost_hint = 1
    /\ Len(dispatched) = 4

\* C10: idle clients cannot hoard credit.  Under DRR no client's deficit
\* exceeds weight * base_quantum, and every client the latest
\* select_next_job call found empty has deficit 0 until the next call.
C10_NoHoarding ==
    policy_.kind = "DRR" =>
        /\ \A c \in DOMAIN clients :
              policy_.deficit[c] <= clients[c].weight * policy_.base_quantum
        /\ \A c \in last_select.empties : policy_.deficit[c] = 0

\* C10 witness: the latest call found empty a client that still had credit
\* and took it away.
C10_Witness ==
    /\ policy_.kind = "DRR"
    /\ \E c \in last_select.reset : policy_.deficit[c] = 0

-----------------------------------------------------------------------------
(* Claim settled under SpecBacklog.                                        *)

\* The gap a deficit round robin keeps between two backlogged clients, in
\* cost per unit of weight: one quantum plus one job of the largest cost
\* for each of the two.
GapBound == policy_.base_quantum + 2 * ArbMaxCost

\* C9 (as claimed): DRR cost-proportional fairness.  For any two clients i, j
\* that were backlogged at every select_next_job call, the gap
\* |cost_i/weight_i - cost_j/weight_j| between the cost dispatched to them
\* stays within a constant, whatever the cost_hint values and the quantum.
C9_CostProportional ==
    \A i, j \in DOMAIN clients :
        served[i] * clients[j].weight - served[j] * clients[i].weight
            <= GapBound * clients[i].weight * clients[j].weight

-----------------------------------------------------------------------------
(* Claims settled under SpecApi.                                           *)

\* The step is a submit call on registered client c that found its queue
\* bounded with strategy st.
SubmitOn(c, st) ==
    /\ last_call'.op = "submit" /\ last_call'.id = c
    /\ c \in DOMAIN clients
    /\ next_job_id' = next_job_id + 1
    /\ clients[c].max_queue_depth > 0
    /\ clients[c].overflow_strategy = st

\* The queue of c was full when the call was made.
FoundFull(c) == Len(clients[c].queue) = clients[c].max_queue_depth

\* The job the submit call of this step carries, as it stands in the queue.
Incoming(c) ==
    [client_id |-> c, job_id |-> last_call'.arg, cost_hint |-> 1,
     seq |-> fifo[c].pushed + 1]

\* The same but for cost_hint, which the caller chooses.
SameJob(a, b) == [a EXCEPT !.cost_hint = 0] = [b EXCEPT !.cost_hint = 0]

\* The queue of c after the step is q with the incoming job at the back.
PushedOnto(c, q) ==
    /\ Len(clients'[c].queue) = Len(q) + 1
    /\ SubSeq(clients'[c].queue, 1, Len(q)) = q
    /\ SameJob(clients'[c].queue[Len(q) + 1], Incoming(c))

\* C11: REJECT backpressure.  A submit on a REJECT client of depth d > 0 that
\* finds d jobs queued fails with QueueFull, raises overflow_count by one and
\* leaves queue and submitted_count as they were; one that finds fewer than d
\* is admitted: it returns and its job is at the back of the queue.
C11_RejectEffect ==
    [][\A c \in ClientIds : SubmitOn(c, "REJECT") =>
          /\ Len(clients[c].queue) <= clients[c].max_queue_depth
          /\ IF FoundFull(c)
             THEN /\ last_call'.result = "QueueFull"
                  /\ clients'[c].overflow_count = clients[c].overflow_count + 1
                  /\ clients'[c].queue = clients[c].queue
                  /\ clients'[c].submitted_count = clients[c].submitted_count
             ELSE /\ last_call'.result = "ok"
                  /\ PushedOnto(c, clients[c].queue)
                  /\ clients'[c].overflow_count = clients[c].overflow_count]_vars

\* C11 witness: the latest call was a submit that failed with QueueFull on a
\* client whose queue holds max_queue_depth jobs.
C11_Witness ==
    /\ last_call.op = "submit" /\ last_call.result = "QueueFull"
    /\ clients[last_call.id].overflow_strategy = "REJECT"
    /\ Len(clients[last_call.id].queue) = clients[last_call.id].max_queue_depth
    /\ clients[last_call.id].overflow_count = 1

\* Jobs the ledger marks evicted were never handed out; jobs that were never
\* pushed were never handed out; each client's jobs were handed out in push
\* order.
OnlySurvivorsRunInOrder ==
    /\ \A k \in DOMAIN dispatched :
          /\ ~ledger[dispatched[k].job_id].evicted
          /\ ledger[dispatched[k].job_id].enqueued
    /\ \A j \in DOMAIN ledger :
          (ledger[j].evicted \/ ~ledger[j].enqueued) => ledger[j].invoked = 0
    /\ \A k1, k2 \in DOMAIN dispatched :
          (k1 < k2 /\ dispatched[k1].client_id = dispatched[k2].client_id)
          => dispatched[k1].seq < dispatched[k2].seq

\* C12: DROP_OLDEST backpressure.  A submit on a DROP_OLDEST client of depth
\* d > 0 that finds d jobs queued returns without error, discards the front
\* job, raises overflow_count by one and appends the new job at the back; the
\* discarded job is never executed and the survivors run in push order.
C12_DropOldestEffect ==
    [][/\ \A c \in ClientIds : (SubmitOn(c, "DROP_OLDEST") /\ FoundFull(c)) =>
             /\ last_call'.result = "ok"
             /\ clients'[c].overflow_count = clients[c].overflow_count + 1
             /\ PushedOnto(c, Tail(clients[c].queue))
             /\ ledger'[Head(clients[c].queue).job_id].evicted
       /\ OnlySurvivorsRunInOrder']_vars

\* C12 witness: jobs 1, 2, 3 were submitted to a DROP_OLDEST client of depth
\* 2; job 1 was discarded and jobs 2 and 3 ran, in that order.
C12_Witness ==
    /\ \E c \in DOMAIN clients :
          /\ clients[c].overflow_strategy = "DROP_OLDEST"
          /\ clients[c].max_queue_depth = ApiDepth
          /\ clients[c].overflow_count = 1
          /\ \A j \in 1..3 : j \in DOMAIN ledger /\ ledger[j].client_id = c
    /\ ledger[1].evicted /\ ledger[1].invoked = 0
    /\ Len(dispatched) = 2
    /\ dispatched[1].job_id = 2 /\ dispatched[2].job_id = 3

\* C13: DROP_NEWEST backpressure.  A submit on a DROP_NEWEST client of depth
\* d > 0 that finds d jobs queued returns without error, raises
\* overflow_count by one and leaves the queue as it was; the incoming job is
\* never executed.
C13_DropNewestEffect ==
    [][/\ \A c \in ClientIds : (SubmitOn(c, "DROP_NEWEST") /\ FoundFull(c)) =>
             /\ last_call'.result = "ok"
             /\ clients'[c].overflow_count = clients[c].overflow_count + 1
             /\ clients'[c].queue = clients[c].queue
             /\ ~ledger'[last_call'.arg].enqueued
       /\ \A c \in DOMAIN clients :
             clients[c].overflow_strategy = "DROP_NEWEST" =>
                Len(clients'[c].queue) <= ApiDepth
       /\ \A j \in DOMAIN ledger' :
             ~ledger'[j].enqueued => ledger'[j].invoked = 0]_vars

\* C13 witness: a DROP_NEWEST client dropped an incoming job and its queue
\* was then drained without that job being run.
C13_Witness ==
    \E c \in DOMAIN clients :
        /\ clients[c].overflow_strategy = "DROP_NEWEST"
        /\ clients[c].overflow_count = 1
        /\ clients[c].queue = <<>>
        /\ Len(dispatched) = ApiDepth
        /\ \E j \in DOMAIN ledger :
              ledger[j].client_id = c /\ ~ledger[j].enqueued /\ ledger[j].invoked = 0

\* The step is the API call op with client id argument id.
Called(op, id) == last_call'.op = op /\ last_call'.id = id

C18_ZeroWeight ==
    [][/\ \A id \in ClientIds :
             (Called("register", id) /\ last_call'.arg = 0)
             => /\ last_call'.result = "InvalidArgument"
                /\ UNCHANGED <<clients, client_order, policy_>>
       /\ \A id \in ClientIds :
             (Called("register", id) /\ last_call'.result = "ok")
             => id \notin DOMAIN clients /\ clients'[id].weight = last_call'.arg
       /\ \A id \in DOMAIN clients' : clients'[id].weight >= 1
       /\ \A id \in DOMAIN clients :
             id \in DOMAIN clients' /\ clients'[id].weight = clients[id].weight
       /\ \A id \in DOMAIN clients :
             Called("metrics", id) =>
                /\ last_call'.result = "ok"
                /\ last_call'.value.weight = clients[id].weight]_vars

\* C18 witness: a registration with weight 0 of an id that is registered
\* with weight 2 was refused with InvalidArgument.
C18_Witness ==
    /\ last_call.op = "register" /\ last_call.arg = 0
    /\ last_call.result = "InvalidArgument"
    /\ last_call.id \in DOMAIN clients
    /\ clients[last_call.id].weight = 2

\* C19: unknown client.  submit and get_client_metrics with an id that is
\* not registered fail with UnknownClient, record_execution with such an id
\* returns; none of them changes a queue, a counter, the job id counter,
\* total_processed or the policy.
C19_UnknownClient ==
    [][\A id \in ClientIds \ DOMAIN clients :
          /\ (Called("submit", id) \/ Called("metrics", id))
             => /\ last_call'.result = "UnknownClient"
                /\ UNCHANGED <<clients, client_order, policy_, next_job_id,
                               total_processed>>
          /\ Called("record", id)
             => /\ last_call'.result = "ok"
                /\ UNCHANGED <<clients, client_order, policy_, next_job_id,
                               total_processed>>]_vars

\* C19 witness: record_execution was called with an unregistered id after a
\* job of a registered client had been recorded.
C19_Witness ==
    /\ last_call.op = "record" /\ last_call.id \notin DOMAIN clients
    /\ total_processed = 1
    /\ \E c \in DOMAIN clients : clients[c].executed_count = 1

-----------------------------------------------------------------------------
(* Claims settled under SpecLocks.                                          *)

\* The place of a lock in the hierarchy; cv_mutex_ is the pool's and has none.
Rank(l) ==
    CASE l = RegistryMutex -> 1
      [] l = RrMutex -> 2
      [] l[1] = "mutex" -> 3
      [] OTHER -> 0
HeldLocks(t) == {threads[t].held[i].lock : i \in DOMAIN threads[t].held}
\* The locks thread t holds were taken in the order of the hierarchy.
TakenInOrder(t) ==
    \A i, j \in DOMAIN threads[t].held :
        (i < j /\ Rank(threads[t].held[i].lock) > 0
               /\ Rank(threads[t].held[j].lock) > 0)
        => Rank(threads[t].held[i].lock) < Rank(threads[t].held[j].lock)
\* Thread t is suspended on a condition variable, or woken from it and on
\* its way to take the mutex again.
OnCondition(t) ==
    threads[t].todo # <<>> /\ Head(threads[t].todo).then = "wake"
\* Thread t asks for a lock that is not granted.
Wanting(t) ==
    /\ threads[t].todo # <<>>
    /\ Head(threads[t].todo).a = "acquire"
    /\ ~Available(Head(threads[t].todo).lock, Head(threads[t].todo).mode)
\* A set of threads each of which waits for a lock that one of them holds.
WaitCycle ==
    \E S \in SUBSET ThreadIds :
        /\ S # {}
        /\ \A t \in S :
              Wanting(t) /\ Holders(Head(threads[t].todo).lock) \cap S # {}

\* C21: lock hierarchy and deadlock freedom.  Every thread holds its locks
\* in the order registry lock, policy mutex, one client mutex; no thread
\* holds two client mutexes; a submitter waiting under BLOCK holds no lock;
\* no set of threads waits in a cycle for locks held within the set.
C21_LockHierarchy ==
    /\ \A t \in ThreadIds :
          /\ TakenInOrder(t)
          /\ Cardinality({l \in HeldLocks(t) : l[1] = "mutex"}) <= 1
          /\ (threads[t].op = "submit" /\ OnCondition(t))
             => threads[t].held = <<>>
    /\ ~WaitCycle

\* C21 witness: a worker holds the registry lock, the policy mutex and a
\* client's mutex, taken in that order, while a submitter woken from its
\* BLOCK wait asks for that client's mutex.
C21_Witness ==
    \E t, u \in ThreadIds, c \in ClientIds :
        /\ t # u
        /\ threads[t].held = <<[lock |-> RegistryMutex, mode |-> "shared"],
                               [lock |-> RrMutex, mode |-> "unique"],
                               [lock |-> ClientMutex(c), mode |-> "unique"]>>
        /\ threads[u].op = "submit" /\ OnCondition(u) /\ Wanting(u)
        /\ Head(threads[u].todo).lock = ClientMutex(c)

\* Thread t is about to invoke, or is inside, job->task().
InTask(t) == threads[t].todo # <<>> /\ Head(threads[t].todo).a = "task"

\* C22: a worker invokes a job's callable while it holds none of the registry
\* lock, the policy mutex, a client mutex or cv_mutex_, so no thread waits
\* for a lock held by a worker that is inside a task.
C22_TaskOutsideLocks ==
    \A t \in ThreadIds :
        InTask(t) =>
           /\ threads[t].held = <<>>
           /\ \A u \in ThreadIds :
                 Wanting(u) => t \notin Holders(Head(threads[u].todo).lock)

\* C22 witness: one worker is inside a task while another thread is inside
\* the policy's select_next_job, holding the policy mutex and a client mutex.
C22_Witness ==
    \E t, u \in ThreadIds :
        /\ t # u /\ InTask(t) /\ threads[t].op = "worker_loop"
        /\ RrMutex \in HeldLocks(u)
        /\ \E c \in ClientIds : ClientMutex(c) \in HeldLocks(u)

\* Thread t is at a write of the policy's private state.
WritesPolicy(t) == threads[t].todo # <<>> /\ Head(threads[t].todo).a = "policy"
HoldsRegistryUnique(t) ==
    \E i \in DOMAIN threads[t].held :
        threads[t].held[i] = [lock |-> RegistryMutex, mode |-> "unique"]

\* C30 as stated: the policy's private state is written only by a thread
\* that holds the policy mutex, in on_client_registered too.
C30_PolicyStateUnderPolicyMutex ==
    \A t \in ThreadIds : WritesPolicy(t) => RrMutex \in HeldLocks(t)

\* C30: the policy's private state is written only by a thread that holds
\* the policy mutex (select_next_job) or the registry lock exclusively
\* (on_client_registered), and by one thread at a time.
C30_PolicyStateExclusive ==
    \A t \in ThreadIds :
        WritesPolicy(t) =>
           /\ RrMutex \in HeldLocks(t) \/ HoldsRegistryUnique(t)
           /\ \A u \in ThreadIds \ {t} : ~WritesPolicy(u)

\* C30 witness: register_client is at on_client_registered, holding the
\* registry lock exclusively and not the policy mutex, while a worker's
\* select_next_job waits for the registry lock.
C30_Witness ==
    \E t, u \in ThreadIds :
        /\ t # u
        /\ threads[t].op = "register_client" /\ WritesPolicy(t)
        /\ HoldsRegistryUnique(t) /\ RrMutex \notin HeldLocks(t)
        /\ threads[u].op = "worker_loop" /\ Wanting(u)
        /\ Head(threads[u].todo).then = "select"

-----------------------------------------------------------------------------
(* Claim settled under SpecUnlimited.                                       *)

\* C28: unlimited queues.  A submit on a client registered with
\* max_queue_depth == 0 returns normally with its job at the back of the
\* queue, nothing discarded, submitted_count one higher and overflow_count
\* unchanged, whatever the client's overflow strategy and queue length.
C28_UnlimitedQueue ==
    [][\A c \in ClientIds :
          (/\ last_call'.op = "submit" /\ last_call'.id = c
           /\ next_job_id' = next_job_id + 1
           /\ clients[c].max_queue_depth = 0)
          => /\ last_call'.result = "ok"
             /\ PushedOnto(c, clients[c].queue)
             /\ clients'[c].submitted_count = clients[c].submitted_count + 1
             /\ clients'[c].overflow_count = clients[c].overflow_count
             /\ clients'[c].overflow_count = 0]_vars

\* C28 witness: every overflow strategy but REJECT is configured on some
\* client of depth 0, and a submit has just returned on a BLOCK client whose
\* queue then holds more jobs than any bounded queue of the model.
C28_Witness ==
    /\ last_call.op = "submit" /\ last_call.result = "ok"
    /\ clients[last_call.id].max_queue_depth = 0
    /\ clients[last_call.id].overflow_strategy = "BLOCK"
    /\ Len(clients[last_call.id].queue) > ApiDepth
    /\ \E c \in DOMAIN clients : clients[c].overflow_strategy \in {"DROP_OLDEST", "DROP_NEWEST"}

-----------------------------------------------------------------------------
(* Claim settled under SpecMetrics.                                         *)

\* The rational r equals a / b.
RatEq(r, a, b) == r.den # 0 /\ b # 0 /\ r.num * b = r.den * a
Executed == [c \in DOMAIN clients |-> clients[c].executed_count]
SumExecuted == SumOver(DOMAIN clients, Executed)
SumSquares ==
    SumOver(DOMAIN clients, [c \in DOMAIN clients |-> Executed[c] * Executed[c]])

\* C29: Jain fairness index.  get_global_metrics returns active_clients = n,
\* the number of registered clients, and jain_fairness_index = 1 when n < 2
\* or every executed count is 0, and (sum x)^2 / (n * sum x^2) otherwise;
\* so equal executed counts give 1 and one non-idle client out of n gives 1/n.
C29_JainIndex ==
    last_call.op = "global_metrics" =>
       LET v == last_call.value
           n == Len(client_order)
       IN /\ v.active_clients = n
          /\ IF n < 2 \/ \A c \in DOMAIN clients : Executed[c] = 0
             THEN RatEq(v.jain_fairness_index, 1, 1)
             ELSE RatEq(v.jain_fairness_index,
                        SumExecuted * SumExecuted, n * SumSquares)
          /\ (\A c, d \in DOMAIN clients : Executed[c] = Executed[d])
             => RatEq(v.jain_fairness_index, 1, 1)
          /\ (n >= 1 /\ Cardinality({c \in DOMAIN clients : Executed[c] > 0}) = 1)
             => RatEq(v.jain_fairness_index, 1, n)

\* C29 witness: get_global_metrics was called with three clients of which
\* one has executed jobs, and returned an index of 1/3.
C29_Witness ==
    /\ last_call.op = "global_metrics"
    /\ Len(client_order) = 3
    /\ \E c \in DOMAIN clients :
          /\ Executed[c] = 2
          /\ \A d \in DOMAIN clients \ {c} : Executed[d] = 0
    /\ RatEq(last_call.value.jain_fairness_index, 1, 3)
    /\ ~RatEq(last_call.value.jain_fairness_index, 1, 1)

-----------------------------------------------------------------------------
(* Claims settled under SpecLife.                                           *)

\* The pool is running and not draining and every worker is idle: blocked in
\* cv_.wait after a select_next_job that returned nothing.
AllWorkersIdle ==
    /\ pool.phase = "live"
    /\ \A w \in 1..pool.worker_count : workers[w].pc = "blocked"
\* Every job submitted so far had its callable invoked.
AllInvoked == \A j \in DOMAIN ledger : ledger[j].invoked >= 1

\* C23: new-work wake-up.  A job that submit admits while the pool is running,
\* not draining, and every worker is idle is eventually executed without
\* shutdown being called, even if notify_workers is called again and again.
C23_NewWorkWakesWorker ==
    (\A w \in WorkerIds : WF_vars(NotifyWorkers(w)))
    => ((AllWorkersIdle /\ submitters[1].pc = "enter")
        ~> (AllInvoked \/ pool.phase # "live"))

\* shutdown is being executed and no submit call was in progress when it was
\* called or began after that.
ShutdownRunning == pool.phase \in {"poll", "stop", "join"} /\ ~late_submit
\* shutdown has returned and every worker thread has exited.
ShutdownReturned ==
    /\ pool.phase = "returned"
    /\ \A w \in 1..pool.worker_count : workers[w].pc = "exited"

\* C24: shutdown termination.  Under fair scheduling of the threads, with at
\* least one worker, tasks that return and every submit call returned before
\* shutdown is called, shutdown returns and every worker has then exited.
C24_ShutdownTerminates == ShutdownRunning ~> (ShutdownReturned \/ late_submit)

\* C24 witness: shutdown has returned on a pool with two registered clients
\* of which one never had a job and the other had its job executed.
C24_Witness ==
    /\ ShutdownReturned /\ ~late_submit
    /\ pool.worker_count >= 1
    /\ \E c, d \in DOMAIN clients :
          /\ fifo[c].pushed = 0
          /\ clients[d].executed_count >= 1

\* Every worker thread has returned from worker_loop.
AllWorkersExited == \A w \in 1..pool.worker_count : workers[w].pc = "exited"

\* shutdown was called on a pool whose shutdown had returned.
SecondShutdown == last_call.op = "shutdown" /\ last_call.arg = 2

\* C25: a second shutdown, called in any state reached after the first one
\* returned, returns and changes nothing: running_ stays false, no job is
\* executed, the counters of executions keep their values, and the polling loop
\* is never left waiting for a queue to empty.  After the first shutdown every
\* worker has exited, so a queue that is not empty stays so: the second
\* shutdown returns exactly when its polling loop never finds a pending job.
C25_ShutdownIdempotent ==
    SecondShutdown =>
        /\ ~pool.running_
        /\ total_processed = last_call.value.total_processed
        /\ \A j \in DOMAIN ledger :
              j \in DOMAIN last_call.value.ledger
                 => ledger[j].invoked = last_call.value.ledger[j].invoked
        /\ (pool.phase = "poll" /\ AllWorkersExited) => ~HasPendingJobs(clients)

\* The destructor is entered in this step.
DestroyEntered == last_call.op # "destroy" /\ last_call'.op = "destroy"

\* Every job that was put in a queue and not evicted from it was executed.
QueuedJobsExecuted ==
    \A j \in DOMAIN ledger :
        (ledger[j].enqueued /\ ~ledger[j].evicted) => ledger[j].invoked >= 1

\* C26: is_running() is true from construction and during the drain phase of
\* the first shutdown; running_ becomes false only in the step of shutdown that
\* found every queue empty, is false from then on (so after shutdown returns)
\* and never becomes true again.  The destructor calls shutdown exactly when
\* shutdown has not already run, and a pool destroyed while no submit was in
\* progress has had every queued job executed.
C26_PoolLifecycle ==
    /\ [](/\ pool.phase = "live" => pool.running_
          /\ (pool.phase = "poll" /\ ~SecondShutdown) => pool.running_
          /\ pool.phase \in {"stop", "join", "returned", "destroyed"}
                => ~pool.running_
          /\ (pool.phase = "destroyed" /\ ~late_submit)
                => (~HasPendingJobs(clients) /\ QueuedJobsExecuted))
    /\ [][/\ (pool.running_ /\ ~pool'.running_)
                => (pool.phase = "poll" /\ ~HasPendingJobs(clients))
          /\ ~pool.running_ => ~pool'.running_
          /\ DestroyEntered
                => IF pool.phase = "live"
                   THEN pool'.phase = "poll" /\ pool'.draining_
                   ELSE pool'.phase = "destroyed" /\ ~pool'.running_]_vars

\* C26 witness: a pool destroyed without an earlier shutdown, with a job in a
\* queue when the destructor was entered, and that job executed since.
C26_Witness ==
    /\ pool.phase = "destroyed" /\ ~late_submit
    /\ last_call.op = "destroy" /\ last_call.arg = 1
    /\ \E c \in DOMAIN last_call.value.clients :
          /\ last_call.value.clients[c].queue # <<>>
          /\ ledger[last_call.value.clients[c].queue[1].job_id].invoked = 1

-----------------------------------------------------------------------------
(* Claims settled under SpecApi: the registry.                             *)

\* The ids in client_order_.
OrderedIds == {client_order[i] : i \in DOMAIN client_order}

\* s is the beginning of t.
IsPrefix(s, t) == Len(s) <= Len(t) /\ SubSeq(t, 1, Len(s)) = s

\* C31: clients_ and client_order_ hold the same ids, client_order_ holds no
\* id twice, the DRR deficit map has an entry for every registered id, and no
\* call removes or reorders a client: client_order_ only grows at its end, by
\* the id of a successful register_client.
C31_RegistryConsistent ==
    /\ [](/\ OrderedIds = DOMAIN clients
          /\ Len(client_order) = Cardinality(DOMAIN clients)
          /\ \A i, j \in DOMAIN client_order :
                client_order[i] = client_order[j] => i = j
          /\ policy_.kind = "DRR" => DOMAIN clients \subseteq DOMAIN policy_.deficit)
    /\ [][/\ IsPrefix(client_order, client_order')
          /\ DOMAIN clients \subseteq DOMAIN clients'
          /\ client_order' # client_order
                => /\ last_call'.op = "register" /\ last_call'.result = "ok"
                   /\ last_call'.id \notin DOMAIN clients
                   /\ client_order' = Append(client_order, last_call'.id)]_vars

\* C31 witness: two clients are registered, the second after jobs were
\* dispatched from the first and after a registration that failed.
C31_Witness ==
    /\ Len(client_order) = 2
    /\ dispatched # <<>>
    /\ last_call.op = "register" /\ last_call.result = "AlreadyRegistered"
    /\ clients[1].queue # <<>>

-----------------------------------------------------------------------------
(* Claims settled under Spec: where the jobs are.                          *)

\* The submitter threads that hold job j: built, not yet moved into a queue.
HeldBySubmitter(j) ==
    {s \in SubmitterIds : /\ submitters[s].pc \in {"enter", "waiting", "woken"}
                          /\ submitters[s].job.job_id = j}

\* The queue positions job j is at.
QueuedAt(j) ==
    UNION {{<<c, i>> : i \in {k \in DOMAIN clients[c].queue :
                                   clients[c].queue[k].job_id = j}} :
           c \in DOMAIN clients}

\* The worker threads that hold job j: returned to them by select_next_job.
HeldByWorker(j) ==
    {w \in WorkerIds : /\ workers[w].pc \in {"exec", "record", "record_total"}
                       /\ workers[w].job.job_id = j}

Places(j) ==
    Cardinality(HeldBySubmitter(j)) + Cardinality(QueuedAt(j))
    + Cardinality(HeldByWorker(j))

\* Jobs of client c whose task was invoked / whose task returned and whose
\* record_execution call has not yet counted it.
InvokedJobs(c) ==
    {j \in DOMAIN ledger : ledger[j].client_id = c /\ ledger[j].invoked >= 1}
AwaitingRecord(c) ==
    {w \in WorkerIds : workers[w].pc = "record" /\ workers[w].job.client_id = c}

\* C32: a job is in at most one place (a submitter, one position of one
\* queue, one worker), and in none only once it was executed or discarded; no
\* job is held by two workers or invoked twice; a queue holds only jobs
\* submitted for its client; record_execution counts each executed job once,
\* for the client the job was submitted for.
C32_JobUniqueness ==
    /\ [](\A j \in DOMAIN ledger :
            /\ Places(j) <= 1
            /\ ledger[j].invoked <= 1
            /\ Cardinality(HeldByWorker(j)) = 1 => ledger[j].enqueued
            /\ Places(j) = 0 =>
                  \/ ledger[j].invoked = 1
                  \/ ledger[j].evicted
                  \/ ~ledger[j].enqueued
                  \/ \E s \in SubmitterIds :
                        submitters[s].pc = "count" /\ submitters[s].job.job_id = j)
    /\ [](\A c \in DOMAIN clients :
            /\ \A i \in DOMAIN clients[c].queue :
                  /\ clients[c].queue[i].client_id = c
                  /\ ledger[clients[c].queue[i].job_id].client_id = c
            /\ ~terminated =>
                  clients[c].executed_count + Cardinality(AwaitingRecord(c))
                     = Cardinality(InvokedJobs(c)))
    /\ [][\A w \in WorkerIds :
            (workers[w].pc = "record" /\ workers'[w].pc # "record") =>
               LET c == ledger[workers[w].job.job_id].client_id
               IN /\ workers[w].job.client_id = c
                  /\ clients'[c].executed_count = clients[c].executed_count + 1
                  /\ \A d \in DOMAIN clients \ {c} :
                        clients'[d].executed_count = clients[d].executed_count]_vars

\* C32 witness: two workers each hold a job of the same client, one still
\* running its task and the other between the task and record_execution.
C32_Witness ==
    \E v, w \in WorkerIds :
        /\ workers[v].pc = "exec" /\ workers[w].pc = "record"
        /\ workers[v].job.client_id = workers[w].job.client_id
        /\ workers[v].job.job_id # workers[w].job.job_id

\* C33: a worker leaves worker_loop only from the no-job branch when the pool
\* is draining and has_pending_jobs() is false, or from the loop's head when
\* its stop was requested; no worker has exited while shutdown was not yet
\* called; a worker that found no job while the pool is draining and a queue
\* is not empty neither exits nor blocks: it goes through cv_.wait, whose
\* predicate is true, back to the loop's head and, unless its stop was
\* requested, to select_next_job.
C33_WorkerExitRule ==
    /\ [](pool.phase = "live" => \A w \in WorkerIds : workers[w].pc # "exited")
    /\ [][\A w \in WorkerIds :
            /\ (workers[w].pc # "exited" /\ workers'[w].pc = "exited") =>
                  \/ /\ workers[w].pc = "nojob"
                     /\ pool.draining_ /\ ~HasPendingJobs(clients)
                  \/ workers[w].pc = "top" /\ StopRequested(w)
            /\ (/\ workers[w].pc = "nojob" /\ workers'[w].pc # "nojob"
                /\ pool.draining_ /\ HasPendingJobs(clients))
                  => workers'[w].pc = "wait"
            /\ (/\ workers[w].pc = "wait" /\ workers'[w].pc # "wait"
                /\ pool.draining_)
                  => workers'[w].pc = "top"
            /\ (/\ workers[w].pc = "top" /\ workers'[w].pc # "top"
                /\ ~StopRequested(w))
                  => workers'[w].pc = "select"]_vars

\* C33 witness: a worker whose scan found nothing stands in the no-job branch
\* of a draining pool while a queue holds a job, and another worker has left.
C33_Witness ==
    \E v, w \in WorkerIds :
        /\ workers[w].pc = "nojob" /\ workers[v].pc = "exited"
        /\ pool.draining_ /\ HasPendingJobs(clients)
        /\ ~StopRequested(w)

\* C34: the queue of a client registered with max_queue_depth d > 0 never
\* holds more than d jobs, whatever its overflow strategy, with submitters
\* calling submit for the same client at the same time and workers dequeuing.
C34_BoundedQueueDepth ==
    \A c \in DOMAIN clients :
        clients[c].max_queue_depth > 0
           => Len(clients[c].queue) <= clients[c].max_queue_depth

\* C34 witness: each strategy in turn has a bounded queue at its bound, found
\* so by a submit, while every submitter thread is inside submit for that
\* client and a worker has already taken a job from it.
C34_WitnessFor(st) ==
    \E c \in DOMAIN clients :
        /\ clients[c].max_queue_depth > 0
        /\ clients[c].overflow_strategy = st
        /\ Len(clients[c].queue) = clients[c].max_queue_depth
        /\ fifo[c].last_out > 0
        /\ \A s \in SubmitterIds :
              /\ submitters[s].pc \in {"enter", "woken", "waiting", "count"}
              /\ submitters[s].job.client_id = c
        /\ st = "BLOCK" => \E s \in SubmitterIds : submitters[s].pc = "waiting"
        /\ st # "BLOCK" => clients[c].overflow_count > 0

C34_Witness == C34_WitnessFor("BLOCK")

-----------------------------------------------------------------------------
(* Claims settled under SpecArb: scans that find nothing.                  *)

\* The step is a select_next_job call that returned none.
EmptyPoll ==
    /\ client_order' = client_order /\ next_job_id' = next_job_id
    /\ dispatched' = dispatched
    /\ last_select'.called /\ ~last_select'.returned

\* The registry with one job of cost_hint 1 queued for each client of S and
\* every other queue empty.
WithOneJobEach(S) ==
    [c \in DOMAIN clients |->
        [clients[c] EXCEPT !.queue = IF c \in S THEN <<NewJob(c, next_job_id, 1)>>
                                     ELSE <<>>]]

\* The client whose job select_next_job would return from policy state pol
\* were the queues WithOneJobEach(S) (0 if S is empty).
ServedFirst(pol, S) ==
    SelectNextJob(pol, WithOneJobEach(S), client_order).job.client_id

\* C35: a select_next_job call that returns none leaves the policy's cursor at
\* the index it had before the call, having advanced it n times modulo n, and
\* under DRR leaves every client's deficit at 0; whichever clients get work
\* next, the client served first is the one that would have been served first
\* without the call.
C35_EmptyScanCursorNeutral ==
    [][EmptyPoll =>
          /\ Cursor(policy_') = Cursor(policy_)
          /\ last_select'.inspected = Len(client_order)
          /\ policy_.kind = "DRR" =>
                \A c \in DOMAIN policy_'.deficit : policy_'.deficit[c] = 0
          /\ \A S \in SUBSET (DOMAIN clients) :
                ServedFirst(policy_', S) = ServedFirst(policy_, S)]_vars

\* C35 witness: with two clients registered and the cursor at the second, a
\* call has returned none after jobs were dispatched, and under DRR it reset
\* a deficit that was not 0.
C35_Witness ==
    /\ last_select.called /\ ~last_select.returned
    /\ last_select.n = 2 /\ last_select.inspected = 2
    /\ Cursor(policy_) = 1
    /\ dispatched # <<>>
    /\ policy_.kind = "DRR" /\ last_select.reset # {}

-----------------------------------------------------------------------------
(* Claims settled under SpecRounds.                                        *)

\* The jobs DRR may dispatch from client c in one visit of its cursor.
Quota(c) ==
    IF clients[c].weight * policy_.base_quantum >= 1
    THEN clients[c].weight * policy_.base_quantum ELSE 1

\* The clients are those of the first dispatch, two or more.
FixedRoster ==
    /\ dispatched # <<>>
    /\ client_order = first_dispatch.order
    /\ Len(client_order) >= 2

\* The latest dispatches, from the a-th on, all went to client c / none of
\* them went to client c.
RunOf(c, a) == \A k \in a..Len(dispatched) : dispatched[k].client_id = c
RunWithout(c, a) == \A k \in a..Len(dispatched) : dispatched[k].client_id # c

\* The sum of the quotas of the clients other than c.
OthersQuota(c) ==
    SumOver(DOMAIN clients \ {c}, [d \in DOMAIN clients |-> Quota(d)])

\* C36: with every cost_hint >= 1 and every client kept non-empty, DRR
\* dispatches at most max(1, weight x base_quantum) jobs in a row from one
\* client, and any client is served again after at most the sum, over the
\* other clients, of max(1, weight x base_quantum) dispatches.
C36_DrrStarvationBound ==
    FixedRoster =>
        \A c \in DOMAIN clients :
            \A a \in DOMAIN dispatched :
                /\ RunOf(c, a) => Len(dispatched) - a + 1 <= Quota(c)
                /\ RunWithout(c, a) => Len(dispatched) - a + 1 <= OthersQuota(c)

\* C36 witness: among three clients, one was passed over for exactly the sum
\* of the others' quotas, one of which is 2 jobs or more, and was then served.
C36_Witness ==
    /\ FixedRoster /\ Len(client_order) = 3
    /\ \E c \in DOMAIN clients :
          /\ dispatched[Len(dispatched)].client_id = c
          /\ \E a \in 1..(Len(dispatched) - 1) :
                /\ \A k \in a..(Len(dispatched) - 1) : dispatched[k].client_id # c
                /\ Len(dispatched) - a = OthersQuota(c)
          /\ \E d \in DOMAIN clients \ {c} : Quota(d) >= 2

\* The cost_hint values submitted so far for client c: in SpecRounds every
\* job submitted is in the queue or was dispatched.
SubmittedCosts(c) ==
    {clients[c].queue[i].cost_hint : i \in DOMAIN clients[c].queue}
    \cup {dispatched[k].cost_hint :
             k \in {i \in DOMAIN dispatched : dispatched[i].client_id = c}}

\* The largest cost_hint submitted so far for client c.
Cmax(c) == CHOOSE m \in SubmittedCosts(c) : \A x \in SubmittedCosts(c) : x <= m

\* C37 (as claimed): with a base_quantum of 1 or more and cost_hint values of
\* 1 or more, the deficit of a client never goes below -(Cmax - 1), Cmax the
\* largest cost_hint submitted for that client.
C37_DeficitLowerBound ==
    policy_.base_quantum >= 1 =>
        \A c \in DOMAIN clients :
            SubmittedCosts(c) # {} => policy_.deficit[c] >= -(Cmax(c) - 1)

-----------------------------------------------------------------------------
(* Claims settled under Spec: the policy's cursor.                         *)

\* C38: while the policy's select_next_job runs, client_order_ is not empty
\* and the cursor is an index into it; between calls the cursor is below the
\* number of registered clients (0 while there is none), and a registration
\* leaves it where it was.
C38_CursorInBounds ==
    /\ [](/\ \A w \in WorkerIds :
                workers[w].pc = "scan" =>
                   /\ client_order # <<>>
                   /\ Cursor(policy_) < Len(client_order)
          /\ Cursor(policy_) >= 0
          /\ client_order = <<>> => Cursor(policy_) = 0
          /\ client_order # <<>> => Cursor(policy_) < Len(client_order))
    /\ [][client_order' # client_order =>
             /\ Cursor(policy_') = Cursor(policy_)
             /\ Cursor(policy_') < Len(client_order')]_vars

\* C38 witness: a worker is inside the policy's scan with the cursor at the
\* second of two clients, both of which have had jobs dispatched.
C38_Witness ==
    /\ \E w \in WorkerIds : workers[w].pc = "scan"
    /\ Len(client_order) = 2 /\ Cursor(policy_) = 1
    /\ \A c \in DOMAIN clients : fifo[c].last_out > 0

-----------------------------------------------------------------------------
(* Claim settled under Spec: job ids.                                      *)

\* The job ids held by jobs in queues, with the queue position of each.
QueuedIds ==
    UNION {{<<c, i, clients[c].queue[i].job_id>> : i \in DOMAIN clients[c].queue} :
           c \in DOMAIN clients}

\* No two jobs in the queues have the same job_id.
QueuedIdsDistinct ==
    \A x, y \in QueuedIds : x[3] = y[3] => x = y

\* C39 (as claimed): the jobs in the queues have distinct job_ids, every id
\* handed out is below next_job_id_, and in each client's queue the job_ids
\* increase strictly from front to back, also while several threads are
\* inside submit for the same client.
C39_JobIdsIncreasing ==
    /\ QueuedIdsDistinct
    /\ \A x \in QueuedIds : x[3] < next_job_id
    /\ \A c \in DOMAIN clients :
          \A i, j \in DOMAIN clients[c].queue :
              i < j => clients[c].queue[i].job_id < clients[c].queue[j].job_id

====
